---------------------------- MODULE Spec2Model ----------------------------
(***************************************************************************)
(* Adaptive tickless timer scheduling (kernel/time/tick-sched.c).          *)
(*                                                                         *)
(* Time is measured in half tick periods (TickPeriod == 2 units).  The     *)
(* per-CPU tick_sched structures, the jiffies time base, the do_timer      *)
(* duty word and the adaptive-nohz counter are the state; every handler of *)
(* the file is an operator from a world record to a world record, and the  *)
(* actions apply those operators.                                          *)
(***************************************************************************)
EXTENDS Integers, Sequences, FiniteSets, TLC

(* ------------------------------ bounds -------------------------------- *)
NCpus == 2
MaxTime == 4
MaxDelta == 2
MaxLag == 1
MaxCalls == 2
MaxRepeat == 2

(* ------------------------- program constants -------------------------- *)
TickPeriod == 2
UnitsPerUsec == 2
TICK_DO_TIMER_NONE == -1
KTIME_MAX == 1000
NEXT_TIMER_MAX_DELTA == 100
ULongMod == 256
LONG_MAX == 127
timekeeping_max_deferment == 3

CPUs == 0 .. (NCpus - 1)

VARIABLES
    now,                  \* the monotonic clock (ktime_get)
    jiffies,              \* the tick counter
    last_jiffies_update,  \* time of the last jiffies update
    tick_next_period,     \* the next period's deadline
    xtime_lock,           \* holder of the xtime seqlock's write side, or NONE
    upd,                  \* per CPU: its position inside tick_do_update_jiffies64
    tick_do_timer_cpu,    \* the CPU that has the do_timer duty, or TICK_DO_TIMER_NONE
    nr_cpus_user_nohz,    \* number of CPUs in (or wanting) adaptive nohz mode
    tick_nohz_enabled,    \* the nohz= boot parameter
    ts,                   \* per CPU: struct tick_sched
    dev,                  \* per CPU: the clock event device
    task,                 \* per CPU: what runs there and in which context
    acct,                 \* per CPU: cputime handed to the accounting sinks
    cdd,                  \* per CPU: its position inside check_drop_timer_duty
    track                 \* what the run covers (fixed at Init): idle statistics,
                          \* the accounting sinks, time passing inside a
                          \* handler, ticks served before time moves on

vars == <<now, jiffies, last_jiffies_update, tick_next_period, xtime_lock, upd,
          tick_do_timer_cpu, nr_cpus_user_nohz, tick_nohz_enabled, ts, dev,
          task, acct, cdd, track>>

sysvars == <<tick_do_timer_cpu, nr_cpus_user_nohz, tick_nohz_enabled, ts, dev,
             task, acct, cdd, track>>

Min(a, b) == IF a <= b THEN a ELSE b
Max(a, b) == IF a >= b THEN a ELSE b


(* ------------------------- the system's state ------------------------- *)
Modes == {"INACTIVE", "LOWRES", "HIGHRES"}
Whences == {"NONE", "IDLE", "USER", "SYS"}
Tasks == {"idle", "user", "kthread"}
NoTrack == [stats |-> FALSE, acct |-> FALSE, lag |-> FALSE, prompt |-> FALSE]

\* struct tick_sched as tick_cpu_sched is defined: all zero.
TsInit ==
    [nohz_mode |-> "INACTIVE", tick_stopped |-> FALSE, idle_active |-> FALSE,
     inidle |-> FALSE, idle_entrytime |-> 0, idle_sleeptime |-> 0,
     iowait_sleeptime |-> 0, last_tick |-> 0, expires |-> 0, active |-> FALSE,
     saved_jiffies |-> 0, saved_jiffies_whence |-> "NONE", user_nohz |-> FALSE,
     do_timer_last |-> FALSE, check_clocks |-> FALSE]

\* The clock event device: next_event is the field the code reads, hw the
\* deadline the hardware is programmed for (KTIME_MAX: none), hres whether
\* the CPU's hrtimers run in high resolution mode and drive the device.  It
\* starts in periodic mode, due at the first period.
DevInit == [next_event |-> TickPeriod, hw |-> TickPeriod, hres |-> FALSE]

\* The cputime the sinks received since the tick was last stopped on the CPU
\* (open: that stop has not been resumed yet; j0: jiffies at the stop).
AcctInit == [open |-> FALSE, j0 |-> 0, idle |-> 0, user |-> 0, sys |-> 0]

\* The locals of check_drop_timer_duty, outside a call.
CddInit ==
    [pc |-> "idle", nrepeat |-> -1, drop_recheck |-> FALSE, curr_handler |-> 0,
     new_handler |-> TICK_DO_TIMER_NONE, prev_handler |-> 0, ret |-> 0]

TaskInit(adaptive) ==
    [cur |-> "idle", umode |-> FALSE, online |-> TRUE, adaptive |-> adaptive]

InitSys ==
    /\ tick_do_timer_cpu = 0
    /\ nr_cpus_user_nohz = 0
    /\ tick_nohz_enabled \in BOOLEAN
    /\ ts = [c \in CPUs |-> TsInit]
    /\ dev = [c \in CPUs |-> DevInit]
    /\ \E A \in SUBSET CPUs : task = [c \in CPUs |-> TaskInit(c \in A)]
    /\ acct = [c \in CPUs |-> AcctInit]
    /\ cdd = [c \in CPUs |-> CddInit]
    /\ track = NoTrack

InitClock ==
    /\ now = 0
    /\ jiffies = 0
    /\ last_jiffies_update = 0
    /\ tick_next_period = 0
    /\ xtime_lock = TICK_DO_TIMER_NONE
    /\ upd = [c \in CPUs |-> [pc |-> "idle", now |-> 0, delta |-> 0, calls |-> 0]]

(* -------------------- tick_do_update_jiffies64 ------------------------ *)
(* The arithmetic of one locked update: lju is last_jiffies_update as read *)
(* under the lock, delta the difference the update works from.             *)
SlowTicks(delta) ==
    IF delta - TickPeriod >= TickPeriod THEN (delta - TickPeriod) \div TickPeriod ELSE 0

UpdatedLju(lju, delta) == lju + TickPeriod + TickPeriod * SlowTicks(delta)

UpdatedTicks(delta) == SlowTicks(delta) + 1

(* The second evaluation of delta, with xtime_lock held. *)
LockedDelta_quick(c) == upd[c].delta

LockedDelta(c) == upd[c].now - last_jiffies_update

\* The update function alone, called from every CPU: the rest of the
\* system stays as constructed, with nohz off.
InitJiffies ==
    /\ InitClock
    /\ InitSys
    /\ tick_nohz_enabled = FALSE
    /\ \A c \in CPUs : ~task[c].adaptive

\* The tick of CPU c is due.
TickDue(c) ==
    /\ task[c].online
    /\ IF dev[c].hres THEN ts[c].active /\ ts[c].expires <= now
       ELSE dev[c].hw <= now

(* Real time moves on (with track.prompt: not past a tick that is due). *)
AdvanceTime ==
    /\ now < MaxTime
    /\ track.prompt => \A c \in CPUs : ~TickDue(c)
    /\ now' = now + 1
    /\ UNCHANGED <<jiffies, last_jiffies_update, tick_next_period, xtime_lock, upd>>
    /\ UNCHANGED sysvars

(* A caller reads the clock and calls tick_do_update_jiffies64(now). *)
UCall(c) ==
    /\ upd[c].pc = "idle"
    /\ upd[c].calls < MaxCalls
    /\ upd' = [upd EXCEPT ![c] = [pc |-> "quick", now |-> now, delta |-> 0,
                                  calls |-> upd[c].calls + 1]]
    /\ UNCHANGED <<now, jiffies, last_jiffies_update, tick_next_period, xtime_lock>>
    /\ UNCHANGED sysvars

(* The quick check without the lock. *)
UQuick(c) ==
    /\ upd[c].pc = "quick"
    /\ LET d == upd[c].now - last_jiffies_update IN
       upd' = [upd EXCEPT ![c].delta = d,
                          ![c].pc = IF d < TickPeriod THEN "idle" ELSE "lock"]
    /\ UNCHANGED <<now, jiffies, last_jiffies_update, tick_next_period, xtime_lock>>
    /\ UNCHANGED sysvars

(* write_seqlock(&xtime_lock) *)
ULock(c) ==
    /\ upd[c].pc = "lock"
    /\ xtime_lock = TICK_DO_TIMER_NONE
    /\ xtime_lock' = c
    /\ upd' = [upd EXCEPT ![c].pc = "locked"]
    /\ UNCHANGED <<now, jiffies, last_jiffies_update, tick_next_period>>
    /\ UNCHANGED sysvars

(* The body under the lock, then write_sequnlock. *)
UUpdate(c) ==
    /\ upd[c].pc = "locked"
    /\ xtime_lock = c
    /\ LET d == LockedDelta(c) IN
       IF d >= TickPeriod
       THEN /\ last_jiffies_update' = UpdatedLju(last_jiffies_update, d)
            /\ jiffies' = jiffies + UpdatedTicks(d)
            /\ tick_next_period' = UpdatedLju(last_jiffies_update, d) + TickPeriod
       ELSE UNCHANGED <<last_jiffies_update, jiffies, tick_next_period>>
    /\ xtime_lock' = TICK_DO_TIMER_NONE
    /\ upd' = [upd EXCEPT ![c].pc = "idle"]
    /\ UNCHANGED now
    /\ UNCHANGED sysvars

NextJiffies ==
    \/ AdvanceTime
    \/ \E c \in CPUs : UCall(c)
    \/ \E c \in CPUs : UQuick(c)
    \/ \E c \in CPUs : ULock(c)
    \/ \E c \in CPUs : UUpdate(c)

SpecJiffies == InitJiffies /\ [][NextJiffies]_vars


(* ----------------------------- the world ------------------------------ *)
(* Every handler is an operator on this record.  now is the clock that     *)
(* ktime_get() reads; raised collects the CPUs whose TIMER_SOFTIRQ the     *)
(* handler raised.                                                         *)
World ==
    [now |-> now, jiffies |-> jiffies, last_jiffies_update |-> last_jiffies_update,
     tick_next_period |-> tick_next_period, tick_do_timer_cpu |-> tick_do_timer_cpu,
     nr_cpus_user_nohz |-> nr_cpus_user_nohz, ts |-> ts, dev |-> dev, task |-> task,
     acct |-> acct, track |-> track, raised |-> {}]

\* Real time that passes inside a handler, between two of its steps.
Elapse(w, lag) == [w EXCEPT !.now = @ + lag]

is_idle_task(w, c) == w.task[c].cur = "idle"

\* No task with an address space.
has_mm_never(w, c) == FALSE

\* current->mm: only a user task has an address space.
has_mm(w, c) == w.task[c].cur = "user"

\* user_mode(get_irq_regs()): the interrupted context ran in user mode.
user_mode(w, c) == w.task[c].cur = "user" /\ w.task[c].umode

cpuset_cpu_adaptive_nohz(w, c) == w.task[c].adaptive

raise_softirq_irqoff(w, c) == [w EXCEPT !.raised = @ \cup {c}]

(* ------------------------- accounting sinks --------------------------- *)
account_ticks(w, c, bucket, ticks) ==
    IF w.acct[c].open
    THEN [w EXCEPT !.acct[c][bucket] = (@ + ticks) % ULongMod]
    ELSE w

account_idle_ticks(w, c, ticks) == account_ticks(w, c, "idle", ticks)
account_user_ticks(w, c, ticks) == account_ticks(w, c, "user", ticks)
account_system_ticks(w, c, ticks) == account_ticks(w, c, "sys", ticks)

\* update_process_times(user): one tick to the bucket of the interrupted context.
update_process_times(w, c, user) ==
    IF user THEN account_user_ticks(w, c, 1)
    ELSE IF is_idle_task(w, c) THEN account_idle_ticks(w, c, 1)
    ELSE account_system_ticks(w, c, 1)

(* ----------------- hrtimer and clock event interface ------------------ *)
\* hrtimer_forward(timer, now, interval): past now by whole intervals.
hrtimer_forward(expires, t, interval) ==
    IF t - expires < 0 THEN expires
    ELSE expires + interval * (((t - expires) \div interval) + 1)

\* hrtimer_start(): a deadline already in the past leaves the timer inactive.
hrtimer_start(w, c, expires) ==
    IF expires > w.now
    THEN [w EXCEPT !.ts[c].expires = expires, !.ts[c].active = TRUE,
                   !.dev[c].next_event = expires]
    ELSE [w EXCEPT !.ts[c].expires = expires, !.ts[c].active = FALSE]

hrtimer_cancel(w, c) == [w EXCEPT !.ts[c].active = FALSE]

\* tick_program_event(expires, 0): -ETIME when the deadline is not ahead.
tick_program_event_ok(w, expires) == expires > w.now

tick_program_event(w, c, expires) ==
    IF tick_program_event_ok(w, expires)
    THEN [w EXCEPT !.dev[c].next_event = expires, !.dev[c].hw = expires]
    ELSE [w EXCEPT !.dev[c].next_event = expires]

(* ------------------------- jiffies, atomically ------------------------ *)
\* tick_do_update_jiffies64 as one step (xtime_lock serialises the writers).
tick_do_update_jiffies64(w, t) ==
    LET delta == t - w.last_jiffies_update IN
    IF delta < TickPeriod THEN w
    ELSE [w EXCEPT !.last_jiffies_update = UpdatedLju(@, delta),
                   !.jiffies = (@ + UpdatedTicks(delta)) % ULongMod,
                   !.tick_next_period =
                       UpdatedLju(w.last_jiffies_update, delta) + TickPeriod]

tick_init_jiffy_update(w) ==
    IF w.last_jiffies_update = 0
    THEN [w EXCEPT !.last_jiffies_update = w.tick_next_period]
    ELSE w

(* ------------------------- idle time statistics ----------------------- *)
update_ts_time_stats(w, c, t, iowait) ==
    IF w.ts[c].idle_active /\ w.track.stats
    THEN LET delta == t - w.ts[c].idle_entrytime IN
         IF iowait
         THEN [w EXCEPT !.ts[c].iowait_sleeptime = @ + delta,
                        !.ts[c].idle_entrytime = t]
         ELSE [w EXCEPT !.ts[c].idle_sleeptime = @ + delta,
                        !.ts[c].idle_entrytime = t]
    ELSE w

tick_nohz_stop_idle(w, c, t, iowait) ==
    [update_ts_time_stats(w, c, t, iowait) EXCEPT !.ts[c].idle_active = FALSE]

\* ktime_to_us: the clock counts half microseconds.
ktime_to_us(kt) == kt \div UnitsPerUsec

\* The reading variant that adds the open interval to the wrong counter.
idle_time_now_any(w, c, t, iowait) ==
    IF w.ts[c].idle_active
    THEN w.ts[c].idle_sleeptime + (t - w.ts[c].idle_entrytime)
    ELSE w.ts[c].idle_sleeptime

\* The else branch of get_cpu_idle_time_us: the idle time as of t, nothing
\* written.
idle_time_now(w, c, t, iowait) ==
    IF w.ts[c].idle_active /\ ~iowait
    THEN w.ts[c].idle_sleeptime + (t - w.ts[c].idle_entrytime)
    ELSE w.ts[c].idle_sleeptime

iowait_time_now(w, c, t, iowait) ==
    IF w.ts[c].idle_active /\ iowait
    THEN w.ts[c].iowait_sleeptime + (t - w.ts[c].idle_entrytime)
    ELSE w.ts[c].iowait_sleeptime

\* update: last_update_time is not NULL; in.iowait: nr_iowait_cpu(cpu) > 0.
\* ret is the u64 returned, -1 standing for (u64)-1, and last_update_time
\* what is stored through the pointer (-1: nothing).
get_cpu_idle_time_us(w, c, update, in) ==
    IF ~tick_nohz_enabled THEN [w |-> w, ret |-> -1, last_update_time |-> -1]
    ELSE LET t == w.now IN
         IF update
         THEN LET w1 == update_ts_time_stats(w, c, t, in.iowait) IN
              [w |-> w1, ret |-> ktime_to_us(w1.ts[c].idle_sleeptime),
               last_update_time |-> ktime_to_us(t)]
         ELSE [w |-> w, ret |-> ktime_to_us(idle_time_now(w, c, t, in.iowait)),
               last_update_time |-> -1]

get_cpu_iowait_time_us(w, c, update, in) ==
    IF ~tick_nohz_enabled THEN [w |-> w, ret |-> -1, last_update_time |-> -1]
    ELSE LET t == w.now IN
         IF update
         THEN LET w1 == update_ts_time_stats(w, c, t, in.iowait) IN
              [w |-> w1, ret |-> ktime_to_us(w1.ts[c].iowait_sleeptime),
               last_update_time |-> ktime_to_us(t)]
         ELSE [w |-> w, ret |-> ktime_to_us(iowait_time_now(w, c, t, in.iowait)),
               last_update_time |-> -1]

\* Leaving adaptive mode: user_nohz cleared and the counter decremented.
clear_user_nohz_keep(w, c) == [w EXCEPT !.ts[c].user_nohz = FALSE]

clear_user_nohz(w, c) ==
    IF w.ts[c].user_nohz
    THEN [w EXCEPT !.ts[c].user_nohz = FALSE, !.nr_cpus_user_nohz = @ - 1]
    ELSE w

tick_nohz_start_idle_stale(w, c) ==
    [clear_user_nohz(w, c) EXCEPT !.ts[c].idle_active = TRUE]

tick_nohz_start_idle(w, c) ==
    [clear_user_nohz(
         [w EXCEPT !.ts[c].idle_entrytime = IF w.track.stats THEN w.now ELSE @], c)
        EXCEPT !.ts[c].idle_active = TRUE]

(* ------------------------ check_drop_timer_duty ----------------------- *)
\* update_do_timer_cpu as it is built without CONFIG_CPUSETS_NO_HZ: the
\* word is read, then stored to, whatever it held.
update_do_timer_cpu_store(w, current_handler, new_handler) ==
    [w |-> [w EXCEPT !.tick_do_timer_cpu = new_handler],
     ret |-> w.tick_do_timer_cpu]

\* cmpxchg(&tick_do_timer_cpu, current_handler, new_handler)
update_do_timer_cpu(w, current_handler, new_handler) ==
    [w |-> IF w.tick_do_timer_cpu = current_handler
           THEN [w EXCEPT !.tick_do_timer_cpu = new_handler]
           ELSE w,
     ret |-> w.tick_do_timer_cpu]

\* Taking the duty only when nobody has it.
takes_duty_if_none(w, c, curr_handler) == curr_handler = TICK_DO_TIMER_NONE

\* Whether a CPU that does not have the duty takes it from curr_handler.
takes_duty(w, c, curr_handler) ==
    \/ curr_handler = TICK_DO_TIMER_NONE
    \/ /\ w.ts[curr_handler].user_nohz
       /\ (is_idle_task(w, c) \/ ~cpuset_cpu_adaptive_nohz(w, c))

\* One call with no other CPU in between: the counter and the duty word are
\* read once, the cmpxchg succeeds and no repeat is taken.
check_drop_timer_duty(w, c) ==
    IF w.nr_cpus_user_nohz > 0
    THEN LET curr_handler == w.tick_do_timer_cpu IN
         IF curr_handler = c THEN [w |-> w, ret |-> c]
         ELSE LET new_handler ==
                      IF takes_duty(w, c, curr_handler) THEN c ELSE curr_handler
                  u == update_do_timer_cpu(w, curr_handler, new_handler)
              IN [w |-> u.w, ret |-> new_handler]
    ELSE LET u == update_do_timer_cpu(w, c, TICK_DO_TIMER_NONE) IN
         [w |-> u.w,
          ret |-> IF u.ret = c THEN TICK_DO_TIMER_NONE ELSE u.ret]


(* ---------------------- tick_nohz_stop_sched_tick --------------------- *)
\* in.needs_cpu: rcu_needs_cpu || printk_needs_cpu || arch_needs_cpu;
\* in.nt: get_next_timer_interrupt(last_jiffies) - last_jiffies;
\* in.lag: the time that passes before the timer is armed.
\* The result carries the world, the returned expiry (0: none) and the
\* last_jiffies the call leaves in ts->last_jiffies.
delta_jiffies_timer(in) == in.nt

delta_jiffies(in) == IF in.needs_cpu THEN 1 ELSE in.nt

\* The sleep limit after the duty check (lines 445-452).
sleep_limit_uncapped(w, c, prev_handler, new_handler) == KTIME_MAX

sleep_limit(w, c, prev_handler, new_handler) ==
    IF prev_handler = c THEN timekeeping_max_deferment
    ELSE IF new_handler # TICK_DO_TIMER_NONE THEN KTIME_MAX
    ELSE IF ~w.ts[c].do_timer_last THEN KTIME_MAX
    ELSE timekeeping_max_deferment

do_timer_last_forgotten(w, c, prev_handler, new_handler) == FALSE

do_timer_last_after(w, c, prev_handler, new_handler) ==
    IF prev_handler = c THEN TRUE
    ELSE IF new_handler # TICK_DO_TIMER_NONE THEN FALSE
    ELSE w.ts[c].do_timer_last

stop_expires(w, c, in, prev_handler, new_handler) ==
    LET limit == sleep_limit(w, c, prev_handler, new_handler)
        time_delta == IF delta_jiffies(in) < NEXT_TIMER_MAX_DELTA
                      THEN Min(limit, TickPeriod * delta_jiffies(in))
                      ELSE limit
    IN IF time_delta < KTIME_MAX
       THEN w.last_jiffies_update + time_delta
       ELSE KTIME_MAX

\* The first stop of a cycle: snapshot the armed expiry, mark the tick stopped.
mark_stopped(w, c) ==
    IF ~w.ts[c].tick_stopped
    THEN [w EXCEPT !.ts[c].last_tick = w.ts[c].expires,
                   !.ts[c].tick_stopped = TRUE,
                   !.acct[c] = IF w.track.acct
                               THEN [open |-> TRUE, j0 |-> w.jiffies,
                                     idle |-> 0, user |-> 0, sys |-> 0]
                               ELSE @]
    ELSE w

\* Arming at expires (lines 497-520), in the world after the duty check and
\* the snapshot.
arm_stopped_tick(w, c, in, expires) ==
    IF expires = KTIME_MAX
    THEN IF w.ts[c].nohz_mode = "HIGHRES" THEN hrtimer_cancel(w, c) ELSE w
    ELSE LET w1 == Elapse(w, in.lag) IN
         IF w.ts[c].nohz_mode = "HIGHRES"
         THEN LET w2 == hrtimer_start(w1, c, expires) IN
              IF w2.ts[c].active THEN w2
              ELSE raise_softirq_irqoff(tick_do_update_jiffies64(w2, w2.now), c)
         ELSE LET w2 == tick_program_event(w1, c, expires) IN
              IF tick_program_event_ok(w1, expires) THEN w2
              ELSE raise_softirq_irqoff(tick_do_update_jiffies64(w2, w2.now), c)

tick_nohz_stop_sched_tick(w, c, in) ==
    LET last_jiffies == w.jiffies
        out(ww, r) == [w |-> ww, ret |-> r, last_jiffies |-> last_jiffies]
    IN
    IF ~w.ts[c].tick_stopped /\ delta_jiffies(in) = 1 THEN out(w, 0)
    ELSE IF delta_jiffies(in) < 1 THEN out(raise_softirq_irqoff(w, c), 0)
    ELSE
      LET prev_handler == w.tick_do_timer_cpu
          d == check_drop_timer_duty(w, c)
          new_handler == d.ret
      IN
      IF new_handler = c THEN out(d.w, 0)
      ELSE
        LET expires == stop_expires(w, c, in, prev_handler, new_handler)
            w1 == [d.w EXCEPT !.ts[c].do_timer_last =
                       do_timer_last_after(w, c, prev_handler, new_handler)]
        IN
        IF w.ts[c].tick_stopped /\ expires = w.dev[c].next_event THEN out(w1, 0)
        ELSE out(arm_stopped_tick(mark_stopped(w1, c), c, in, expires), expires)

(* -------------------------- idle entry -------------------------------- *)
\* in.need_resched, in.softirq_pending: need_resched(), local_softirq_pending().
can_stop_idle_tick_w(w, c) ==
    IF ~w.task[c].online /\ c = w.tick_do_timer_cpu
    THEN [w EXCEPT !.tick_do_timer_cpu = TICK_DO_TIMER_NONE]
    ELSE w

can_stop_idle_tick_any(w, c, in) == TRUE

can_stop_idle_tick(w, c, in) ==
    /\ w.ts[c].nohz_mode # "INACTIVE"
    /\ ~in.need_resched
    /\ ~(in.softirq_pending /\ w.task[c].online)

\* The world in which __tick_nohz_idle_enter decides, and whether it goes on
\* to call tick_nohz_stop_sched_tick there.
idle_stop_call(w, c, in) ==
    LET w1 == can_stop_idle_tick_w(tick_nohz_start_idle(w, c), c) IN
    [called |-> can_stop_idle_tick(w1, c, in), w |-> w1]

tick_nohz_idle_enter_inner(w, c, in) ==
    LET k == idle_stop_call(w, c, in) IN
    IF k.called
    THEN LET was_stopped == k.w.ts[c].tick_stopped
             r == tick_nohz_stop_sched_tick(k.w, c, in)
         IN IF ~was_stopped /\ r.w.ts[c].tick_stopped
            THEN [r.w EXCEPT !.ts[c].saved_jiffies = r.last_jiffies,
                             !.ts[c].saved_jiffies_whence = "IDLE"]
            ELSE r.w
    ELSE k.w

tick_nohz_idle_enter(w, c, in) ==
    tick_nohz_idle_enter_inner([w EXCEPT !.ts[c].inidle = TRUE], c, in)

(* ----------------------- the adaptive (busy) path --------------------- *)
\* in.sched_can_stop, in.posix_timers, in.rcu_pending
adaptive_eligible(in) == in.sched_can_stop /\ ~in.posix_timers /\ ~in.rcu_pending

can_stop_adaptive_tick(w, c, in) ==
    LET ret == adaptive_eligible(in) IN
    [w |-> IF ret /\ ~w.ts[c].user_nohz
           THEN [w EXCEPT !.ts[c].user_nohz = TRUE, !.nr_cpus_user_nohz = @ + 1]
           ELSE IF ~ret /\ w.ts[c].user_nohz THEN clear_user_nohz(w, c)
           ELSE w,
     ret |-> ret]

\* The world in which tick_nohz_cpuset_stop_tick decides, and whether it
\* goes on to call tick_nohz_stop_sched_tick there.
cpuset_stop_call(w, c, in) ==
    IF ~cpuset_cpu_adaptive_nohz(w, c) \/ is_idle_task(w, c)
    THEN [called |-> FALSE, w |-> w]
    ELSE IF ~w.ts[c].tick_stopped /\ w.ts[c].nohz_mode = "INACTIVE"
    THEN [called |-> FALSE, w |-> w]
    ELSE LET a == can_stop_adaptive_tick(w, c, in) IN
         [called |-> a.ret /\ ~(~user_mode(w, c) /\ has_mm(w, c)), w |-> a.w]

tick_nohz_cpuset_stop_tick(w, c, in) ==
    LET user == user_mode(w, c)
        k == cpuset_stop_call(w, c, in)
    IN
    IF k.called
    THEN LET was_stopped == k.w.ts[c].tick_stopped
             r == tick_nohz_stop_sched_tick(k.w, c, in)
         IN IF ~was_stopped /\ r.w.ts[c].tick_stopped
            THEN [r.w EXCEPT
                    !.ts[c].saved_jiffies_whence =
                        IF user THEN "USER" ELSE IF ~has_mm(w, c) THEN "SYS" ELSE @,
                    !.ts[c].saved_jiffies = r.w.jiffies]
            ELSE r.w
    ELSE k.w

\* The call of tick_nohz_stop_sched_tick that tick_nohz_irq_exit leads to.
irq_exit_stop_call(w, c, in) ==
    IF w.ts[c].inidle
    THEN IF ~in.need_resched THEN idle_stop_call(w, c, in)
         ELSE [called |-> FALSE, w |-> w]
    ELSE cpuset_stop_call(w, c, in)

tick_nohz_irq_exit(w, c, in) ==
    IF w.ts[c].inidle
    THEN IF ~in.need_resched THEN tick_nohz_idle_enter_inner(w, c, in) ELSE w
    ELSE tick_nohz_cpuset_stop_tick(w, c, in)


(* --------------------------- tick restoration ------------------------- *)
\* The arming loop of tick_nohz_restart: forward past t, try to arm, and on
\* a deadline already past update jiffies, reread the clock and go round.
RECURSIVE restart_loop(_, _, _, _)
restart_loop(w, c, t, fuel) ==
    LET e == hrtimer_forward(w.ts[c].expires, t, TickPeriod)
        w1 == [w EXCEPT !.ts[c].expires = e]
        ok == e > w1.now
        w2 == IF w.ts[c].nohz_mode = "HIGHRES"
              THEN hrtimer_start(w1, c, e)
              ELSE tick_program_event(w1, c, e)
    IN IF ok \/ fuel = 0 THEN w2
       ELSE restart_loop(tick_do_update_jiffies64(w2, t), c, w2.now, fuel - 1)

\* Restarting from the wake-up that was armed while the tick was stopped.
restart_from_wakeup(w, c) == w.ts[c].expires

restart_from(w, c) == w.ts[c].last_tick

tick_nohz_restart(w, c, t, lag) ==
    LET w1 == [hrtimer_cancel(w, c) EXCEPT !.ts[c].expires = restart_from(w, c)]
    IN restart_loop(Elapse(w1, lag), c, t, 2)

tick_nohz_restart_sched_tick_inner(w, c, t, lag) ==
    tick_nohz_restart(
        [tick_do_update_jiffies64(w, t) EXCEPT !.ts[c].tick_stopped = FALSE],
        c, t, lag)

tick_nohz_restart_sched_tick(w, c, lag) ==
    IF ~w.ts[c].tick_stopped THEN w
    ELSE tick_nohz_restart_sched_tick_inner(w, c, w.now, lag)

(* ------------------------------ accounting ---------------------------- *)
elapsed_ticks(w, c) == (w.jiffies - w.ts[c].saved_jiffies) % ULongMod

account_to(w, c, whence, ticks) ==
    CASE whence = "IDLE" -> account_idle_ticks(w, c, ticks)
      [] whence = "USER" -> account_user_ticks(w, c, ticks)
      [] whence = "SYS" -> account_system_ticks(w, c, ticks)
      [] OTHER -> w

tick_nohz_account_ticks(w, c) ==
    LET ticks == elapsed_ticks(w, c) IN
    IF ticks # 0 /\ ticks < LONG_MAX
    THEN account_to(w, c, w.ts[c].saved_jiffies_whence, ticks)
    ELSE w

tick_nohz_flush_current_times(w, c, restart_tick) ==
    IF w.ts[c].tick_stopped
    THEN IF restart_tick
         THEN [tick_nohz_account_ticks(w, c)
                  EXCEPT !.ts[c].saved_jiffies_whence = "NONE"]
         ELSE [tick_nohz_account_ticks(w, c)
                  EXCEPT !.ts[c].saved_jiffies = w.jiffies]
    ELSE w

(* ------------------------------ idle exit ----------------------------- *)
\* in.iowait: nr_iowait_cpu(cpu) > 0
tick_nohz_idle_exit(w, c, in) ==
    LET w1 == [w EXCEPT !.ts[c].inidle = FALSE]
        t == w.now
        w2 == IF w1.ts[c].idle_active
              THEN tick_nohz_stop_idle(w1, c, t, in.iowait) ELSE w1
    IN IF w2.ts[c].tick_stopped
       THEN [tick_nohz_account_ticks(
                 tick_nohz_restart_sched_tick_inner(w2, c, t, in.lag), c)
               EXCEPT !.ts[c].saved_jiffies_whence = "NONE"]
       ELSE w2

(* ---------------------------- tick handlers --------------------------- *)
\* The duty check both handlers start with.
tick_do_timer_check_handler(w, c) ==
    IF w.tick_do_timer_cpu = TICK_DO_TIMER_NONE
    THEN [w EXCEPT !.tick_do_timer_cpu = c]
    ELSE w

\* The part the handlers share: duty, jiffies, the stamp, process times.
tick_common(w, c, t) ==
    LET w1 == tick_do_timer_check_handler(w, c)
        w2 == IF w1.tick_do_timer_cpu = c
              THEN tick_do_update_jiffies64(w1, t) ELSE w1
        w3 == IF w2.ts[c].tick_stopped
              THEN [w2 EXCEPT !.ts[c].saved_jiffies = (@ + 1) % ULongMod]
              ELSE w2
    IN update_process_times(w3, c, user_mode(w, c))

\* tick_sched_timer from the hrtimer interrupt (regs valid); the timer is
\* restarted at the forwarded expiry.
tick_sched_timer(w, c) ==
    LET t == w.now
        w1 == tick_common(w, c, t)
        e == hrtimer_forward(w1.ts[c].expires, t, TickPeriod)
    IN [w1 EXCEPT !.ts[c].expires = e, !.ts[c].active = TRUE,
                  !.dev[c].next_event = e]

RECURSIVE reprogram_loop(_, _, _, _)
reprogram_loop(w, c, t, fuel) ==
    LET e == hrtimer_forward(w.ts[c].expires, t, TickPeriod)
        w1 == [w EXCEPT !.ts[c].expires = e]
        w2 == tick_program_event(w1, c, e)
    IN IF tick_program_event_ok(w1, e) \/ fuel = 0 THEN w2
       ELSE reprogram_loop(tick_do_update_jiffies64(w2, w2.now), c, w2.now, fuel - 1)

\* tick_nohz_handler: the low resolution event handler.
tick_nohz_handler(w, c, lag) ==
    LET t == w.now
        w1 == [w EXCEPT !.dev[c].next_event = KTIME_MAX, !.dev[c].hw = KTIME_MAX]
    IN reprogram_loop(Elapse(tick_common(w1, c, t), lag), c, t, 2)

\* tick_check_idle from irq_enter: tick_check_nohz (tick_nohz_kick_tick is
\* compiled out).
tick_check_idle(w, c, in) ==
    IF ~w.ts[c].idle_active /\ ~w.ts[c].tick_stopped THEN w
    ELSE LET t == w.now
             w1 == IF w.ts[c].idle_active
                   THEN tick_nohz_stop_idle(w, c, t, in.iowait) ELSE w
         IN IF w1.ts[c].tick_stopped
            THEN tick_do_update_jiffies64(w1, t) ELSE w1

(* ----------------------- kernel entry and exit ------------------------ *)
\* The exit hook that flushes and re-snapshots but leaves the tag alone.
tick_nohz_exit_kernel_noflip(w, c) ==
    IF ~w.ts[c].tick_stopped THEN w
    ELSE [account_system_ticks(w, c, elapsed_ticks(w, c))
            EXCEPT !.ts[c].saved_jiffies = w.jiffies]

tick_nohz_exit_kernel(w, c) ==
    IF ~w.ts[c].tick_stopped THEN w
    ELSE [account_system_ticks(w, c, elapsed_ticks(w, c))
            EXCEPT !.ts[c].saved_jiffies = w.jiffies,
                   !.ts[c].saved_jiffies_whence = "USER"]

\* The entry hook that flushes but keeps the old snapshot.
tick_nohz_enter_kernel_stale(w, c) ==
    IF ~w.ts[c].tick_stopped THEN w
    ELSE [account_user_ticks(w, c, elapsed_ticks(w, c))
            EXCEPT !.ts[c].saved_jiffies_whence = "SYS"]

tick_nohz_enter_kernel(w, c) ==
    IF ~w.ts[c].tick_stopped THEN w
    ELSE [account_user_ticks(w, c, elapsed_ticks(w, c))
            EXCEPT !.ts[c].saved_jiffies = w.jiffies,
                   !.ts[c].saved_jiffies_whence = "SYS"]

(* ---------------------- leaving adaptive mode ------------------------- *)
tick_nohz_restart_adaptive_noflush(w, c, lag) ==
    tick_nohz_restart_sched_tick(clear_user_nohz(w, c), c, lag)

tick_nohz_restart_adaptive(w, c, lag) ==
    LET w1 == tick_nohz_flush_current_times(w, c, TRUE)
        w2 == clear_user_nohz(w1, c)
        w3 == tick_nohz_restart_sched_tick(w2, c, lag)
    IN w3

tick_nohz_check_adaptive(w, c, in) ==
    IF w.ts[c].tick_stopped /\ ~is_idle_task(w, c)
    THEN LET a == can_stop_adaptive_tick(w, c, in) IN
         IF ~a.ret THEN tick_nohz_restart_adaptive(a.w, c, in.lag) ELSE a.w
    ELSE w

\* The handler that does not ask whether the tick is stopped.
cpuset_exit_nohz_interrupt_always(w, c, lag) ==
    IF ~is_idle_task(w, c)
    THEN tick_nohz_restart_sched_tick_inner(
             clear_user_nohz([tick_nohz_account_ticks(w, c)
                                EXCEPT !.ts[c].saved_jiffies_whence = "NONE"], c),
             c, w.now, lag)
    ELSE w

cpuset_exit_nohz_interrupt(w, c, lag) ==
    IF w.ts[c].tick_stopped /\ ~is_idle_task(w, c)
    THEN tick_nohz_restart_adaptive(w, c, lag)
    ELSE w

tick_nohz_pre_schedule(w, c) ==
    IF w.ts[c].tick_stopped
    THEN tick_nohz_flush_current_times(w, c, TRUE)
    ELSE w

tick_nohz_post_schedule(w, c, lag) ==
    IF w.ts[c].tick_stopped
    THEN IF is_idle_task(w, c)
         THEN [w EXCEPT !.ts[c].saved_jiffies = w.jiffies,
                        !.ts[c].saved_jiffies_whence = "IDLE"]
         ELSE tick_nohz_restart_sched_tick(w, c, lag)
    ELSE w


(* ------------------------- tick mode lifecycle ------------------------ *)
\* in.switch_ok: tick_switch_to_oneshot() succeeds.
tick_nohz_switch_to_nohz(w, c, in) ==
    IF ~tick_nohz_enabled \/ ~in.switch_ok THEN w
    ELSE LET w1 == tick_init_jiffy_update(w)
             next == hrtimer_forward(w1.last_jiffies_update, w1.now - 1, TickPeriod)
         IN [w1 EXCEPT !.ts[c].nohz_mode = "LOWRES",
                       !.ts[c].expires = next, !.ts[c].active = FALSE,
                       !.dev[c].next_event = next, !.dev[c].hw = next]

\* The setup that enters the nohz mode without asking tick_nohz_enabled.
tick_setup_sched_timer_nohz(w, c) ==
    LET w1 == tick_init_jiffy_update(w)
        e == hrtimer_forward(w1.last_jiffies_update, w1.now, TickPeriod)
    IN [w1 EXCEPT !.ts[c].expires = e, !.ts[c].active = TRUE,
                  !.ts[c].nohz_mode = "HIGHRES",
                  !.dev[c] = [next_event |-> e, hw |-> KTIME_MAX, hres |-> TRUE]]

tick_setup_sched_timer(w, c) ==
    LET w1 == tick_init_jiffy_update(w)
        e == hrtimer_forward(w1.last_jiffies_update, w1.now, TickPeriod)
    IN [w1 EXCEPT !.ts[c].expires = e, !.ts[c].active = TRUE,
                  !.ts[c].nohz_mode = IF tick_nohz_enabled THEN "HIGHRES" ELSE @,
                  !.dev[c] = [next_event |-> e, hw |-> KTIME_MAX, hres |-> TRUE]]

\* The device of a dead CPU is shut down with its timer.
tick_cancel_sched_timer(w, c) ==
    [hrtimer_cancel(w, c) EXCEPT !.ts[c].nohz_mode = "INACTIVE",
                                 !.dev[c].hw = KTIME_MAX, !.dev[c].hres = FALSE]

tick_clock_notify(w) ==
    [w EXCEPT !.ts = [c \in CPUs |-> [w.ts[c] EXCEPT !.check_clocks = TRUE]]]

tick_oneshot_notify(w, c) == [w EXCEPT !.ts[c].check_clocks = TRUE]

\* in.allow_nohz; in.oneshot_ok: timekeeping_valid_for_hres() and
\* tick_is_oneshot_available().
\* The check that switches whatever the mode is.
tick_check_oneshot_change_any(w, c, in) ==
    LET w1 == [w EXCEPT !.ts[c].check_clocks = FALSE] IN
    IF ~w.ts[c].check_clocks THEN [w |-> w, ret |-> 0]
    ELSE IF ~in.oneshot_ok THEN [w |-> w1, ret |-> 0]
    ELSE IF ~in.allow_nohz THEN [w |-> w1, ret |-> 1]
    ELSE [w |-> tick_nohz_switch_to_nohz(w1, c, in), ret |-> 0]

tick_check_oneshot_change(w, c, in) ==
    LET w1 == [w EXCEPT !.ts[c].check_clocks = FALSE] IN
    IF ~w.ts[c].check_clocks THEN [w |-> w, ret |-> 0]
    ELSE IF w.ts[c].nohz_mode # "INACTIVE" THEN [w |-> w1, ret |-> 0]
    ELSE IF ~in.oneshot_ok THEN [w |-> w1, ret |-> 0]
    ELSE IF ~in.allow_nohz THEN [w |-> w1, ret |-> 1]
    ELSE [w |-> tick_nohz_switch_to_nohz(w1, c, in), ret |-> 0]

\* hrtimer_run_pending: a return of 1 switches the CPU to high resolution
\* mode, which sets the tick emulation timer up.
hrtimer_run_pending(w, c, in) ==
    LET r == tick_check_oneshot_change(w, c, in) IN
    IF w.dev[c].hres THEN w
    ELSE IF r.ret = 1 THEN tick_setup_sched_timer(r.w, c) ELSE r.w

\* The periodic tick of a CPU that has not switched to oneshot mode.
tick_periodic(w, c) ==
    LET w1 == IF w.tick_do_timer_cpu = c
              THEN [w EXCEPT !.tick_next_period = @ + TickPeriod,
                             !.jiffies = (@ + 1) % ULongMod]
              ELSE w
        next == hrtimer_forward(w.dev[c].hw, w.now, TickPeriod)
    IN [update_process_times(w1, c, user_mode(w, c))
          EXCEPT !.dev[c].hw = next, !.dev[c].next_event = next]

(* ------------------------------ inputs -------------------------------- *)
Lags == IF track.lag THEN 0 .. MaxLag ELSE {0}
DeltaSet == (0 .. MaxDelta) \cup {NEXT_TIMER_MAX_DELTA}

NoIn ==
    [needs_cpu |-> FALSE, nt |-> NEXT_TIMER_MAX_DELTA, lag |-> 0,
     need_resched |-> FALSE, softirq_pending |-> FALSE, iowait |-> FALSE,
     sched_can_stop |-> TRUE, posix_timers |-> FALSE, rcu_pending |-> FALSE]

\* What the timer wheel and RCU can answer a stop_sched_tick call.
StopIns ==
    {[NoIn EXCEPT !.nt = d] : d \in DeltaSet} \cup {[NoIn EXCEPT !.needs_cpu = TRUE]}

\* The vetoes of the idle path.
IdleVetoes ==
    {[NoIn EXCEPT !.need_resched = TRUE], [NoIn EXCEPT !.softirq_pending = TRUE]}

\* The adaptive path: one eligibility test failing.
AdaptiveVetoes ==
    {[NoIn EXCEPT !.sched_can_stop = FALSE], [NoIn EXCEPT !.posix_timers = TRUE],
     [NoIn EXCEPT !.rcu_pending = TRUE]}

IdleIns == StopIns \cup IdleVetoes

AllIns == StopIns \cup IdleVetoes \cup AdaptiveVetoes

IowaitSet == IF track.stats THEN BOOLEAN ELSE {FALSE}

\* The answers the code can read on CPU c as it is now: the idle task reads
\* the idle vetoes, a task of an adaptive cpuset the adaptive ones, and the
\* iowait count matters to the idle statistics only.
IrqExitIns(c) ==
    LET base == IF task[c].cur = "idle" THEN IdleIns
                ELSE IF task[c].adaptive THEN StopIns \cup AdaptiveVetoes
                ELSE {NoIn}
    IN  {[in EXCEPT !.iowait = io, !.lag = l] :
            in \in base, l \in Lags,
            io \in IF task[c].cur = "idle" THEN IowaitSet ELSE {FALSE}}

CheckIns(c) ==
    IF task[c].adaptive /\ task[c].cur # "idle"
    THEN AdaptiveVetoes \cup {NoIn} ELSE {NoIn}

IowaitIns == {[NoIn EXCEPT !.iowait = b, !.lag = l] : b \in IowaitSet, l \in Lags}

ModeIns == [allow_nohz : BOOLEAN, oneshot_ok : BOOLEAN, switch_ok : BOOLEAN]


(* --------------------------- interrupt path --------------------------- *)
\* irq_enter(): an interrupt that hits the idle task calls tick_check_idle.
irq_enter(w, c, in) ==
    IF is_idle_task(w, c) THEN tick_check_idle(w, c, in) ELSE w

\* A device interrupt: irq_enter, the handler (nothing of this file),
\* irq_exit with tick_nohz_irq_exit.
device_interrupt(w, c, in) == tick_nohz_irq_exit(irq_enter(w, c, in), c, in)

\* The tick: the handler of the CPU's timer regime between entry and exit.
tick_handler(w, c, in) ==
    IF w.dev[c].hres THEN tick_sched_timer(w, c)
    ELSE IF w.ts[c].nohz_mode = "LOWRES" THEN tick_nohz_handler(w, c, in.lag)
    ELSE tick_periodic(w, c)

tick_interrupt(w, c, in) ==
    tick_nohz_irq_exit(tick_handler(irq_enter(w, c, in), c, in), c, in)

\* The scheduler's IPI, which runs tick_nohz_check_adaptive.
sched_ipi(w, c, in, out) ==
    tick_nohz_irq_exit(tick_nohz_check_adaptive(irq_enter(w, c, in), c, in), c, out)

\* The IPI that forces a CPU out of adaptive mode.
exit_nohz_ipi(w, c, in, out) ==
    tick_nohz_irq_exit(cpuset_exit_nohz_interrupt(irq_enter(w, c, in), c, in.lag),
                       c, out)

\* schedule(): the hooks around the switch to the next task.
schedule(w, c, next, um, lag) ==
    tick_nohz_post_schedule(
        [tick_nohz_pre_schedule(w, c) EXCEPT !.task[c].cur = next,
                                             !.task[c].umode = um],
        c, lag)

(* ------------------------------ actions ------------------------------- *)
\* The world becomes the state; a stop cycle's accounting is closed once
\* the tick runs again.
Land(w) ==
    /\ w.now <= MaxTime
    /\ now' = w.now
    /\ jiffies' = w.jiffies
    /\ last_jiffies_update' = w.last_jiffies_update
    /\ tick_next_period' = w.tick_next_period
    /\ tick_do_timer_cpu' = w.tick_do_timer_cpu
    /\ nr_cpus_user_nohz' = w.nr_cpus_user_nohz
    /\ ts' = w.ts
    /\ dev' = w.dev
    /\ task' = w.task
    /\ acct' = [c \in CPUs |->
                  IF w.ts[c].tick_stopped THEN w.acct[c]
                  ELSE [w.acct[c] EXCEPT !.open = FALSE]]
    /\ UNCHANGED <<xtime_lock, upd, tick_nohz_enabled, track>>

Commit(w) == Land(w) /\ UNCHANGED cdd

IdleEnter(c) ==
    /\ task[c].cur = "idle" /\ ~ts[c].inidle
    /\ \E in \in IrqExitIns(c) : Commit(tick_nohz_idle_enter(World, c, in))

IdleExit(c) ==
    /\ task[c].cur = "idle" /\ ts[c].inidle
    /\ \E in \in IowaitIns : Commit(tick_nohz_idle_exit(World, c, in))

DeviceInterrupt(c) ==
    /\ task[c].online
    /\ \E in \in IrqExitIns(c) : Commit(device_interrupt(World, c, in))

TickInterrupt(c) ==
    /\ TickDue(c)
    /\ \E in \in IrqExitIns(c) : Commit(tick_interrupt(World, c, in))

SchedIpi(c) ==
    /\ task[c].online
    /\ \E in \in CheckIns(c), out \in IrqExitIns(c) :
         Commit(sched_ipi(World, c, [in EXCEPT !.lag = out.lag], out))

ExitNohzIpi(c) ==
    /\ task[c].online
    /\ \E out \in IrqExitIns(c) :
         Commit(exit_nohz_ipi(World, c, [NoIn EXCEPT !.lag = out.lag], out))

EnterKernel(c) ==
    /\ task[c].cur = "user" /\ task[c].umode
    /\ Commit([tick_nohz_enter_kernel(World, c) EXCEPT !.task[c].umode = FALSE])

ExitKernel(c) ==
    /\ task[c].cur = "user" /\ ~task[c].umode
    /\ Commit([tick_nohz_exit_kernel(World, c) EXCEPT !.task[c].umode = TRUE])

Schedule(c) ==
    /\ task[c].online
    /\ ~ts[c].inidle /\ ~task[c].umode
    /\ \E next \in Tasks, l \in Lags : Commit(schedule(World, c, next, FALSE, l))

RestartSchedTick(c) ==
    /\ task[c].online
    /\ \E l \in Lags : Commit(tick_nohz_restart_sched_tick(World, c, l))

FlushCurrentTimes(c) ==
    /\ task[c].online
    /\ \E b \in BOOLEAN : Commit(tick_nohz_flush_current_times(World, c, b))

\* A reader of the idle statistics (a cpufreq governor, /proc/stat) asks
\* with a last_update_time to fill.
GetCpuIdleTime(c) ==
    /\ task[c].online
    /\ \E in \in IowaitIns : Commit(get_cpu_idle_time_us(World, c, TRUE, in).w)

GetCpuIowaitTime(c) ==
    /\ task[c].online
    /\ \E in \in IowaitIns : Commit(get_cpu_iowait_time_us(World, c, TRUE, in).w)

ClockNotify == Commit(tick_clock_notify(World))

RunPending(c) ==
    /\ task[c].online
    /\ ~dev[c].hres
    /\ \E in \in ModeIns : Commit(hrtimer_run_pending(World, c, in))

\* cpu_down(): the CPU is marked offline before its idle task enters the
\* idle loop for the last time.
CpuOffline(c) ==
    /\ task[c].online /\ task[c].cur = "idle" /\ ~ts[c].inidle
    /\ Commit([World EXCEPT !.task[c].online = FALSE])

\* The CPU_DEAD notification, on another CPU: tick_shutdown cancels the dead
\* CPU's tick timer.
CpuDead(c) ==
    /\ ~task[c].online /\ task[c].cur = "idle" /\ ts[c].inidle
    /\ Commit([tick_cancel_sched_timer(World, c) EXCEPT !.task[c].cur = "none"])

(* ------------- check_drop_timer_duty, one access at a time ------------ *)
(* The caller runs with interrupts off; the other CPUs' handlers come in   *)
(* between its accesses to nr_cpus_user_nohz, tick_do_timer_cpu and the    *)
(* holder's user_nohz.                                                     *)
DFrame == UNCHANGED <<now, jiffies, last_jiffies_update, tick_next_period,
                      xtime_lock, upd, nr_cpus_user_nohz, tick_nohz_enabled,
                      ts, dev, task, acct, track>>

\* tick_nohz_stop_sched_tick calls check_drop_timer_duty(cpu).
DCall(c) ==
    /\ task[c].online
    /\ cdd[c].pc = "idle"
    /\ cdd' = [cdd EXCEPT ![c] = [CddInit EXCEPT !.pc = "repeat"]]
    /\ UNCHANGED tick_do_timer_cpu
    /\ DFrame

\* repeat: the counter, the defaults, and the read of nr_cpus_user_nohz.
DRepeat(c) ==
    /\ cdd[c].pc = "repeat"
    /\ cdd[c].nrepeat < MaxRepeat
    /\ cdd' = [cdd EXCEPT ![c] =
                 [@ EXCEPT !.nrepeat = @ + 1,
                           !.curr_handler = c,
                           !.new_handler = TICK_DO_TIMER_NONE,
                           !.drop_recheck = ~(nr_cpus_user_nohz > 0),
                           !.pc = IF nr_cpus_user_nohz > 0 THEN "read" ELSE "update"]]
    /\ UNCHANGED tick_do_timer_cpu
    /\ DFrame

\* curr_handler = ACCESS_ONCE(tick_do_timer_cpu); the holder keeps the duty.
DReadHandler(c) ==
    /\ cdd[c].pc = "read"
    /\ cdd' = [cdd EXCEPT ![c] =
                 IF tick_do_timer_cpu = c
                 THEN [@ EXCEPT !.curr_handler = c, !.ret = c, !.pc = "idle"]
                 ELSE [@ EXCEPT !.curr_handler = tick_do_timer_cpu, !.pc = "decide"]]
    /\ UNCHANGED tick_do_timer_cpu
    /\ DFrame

\* The takeover test, with the read of the holder's user_nohz.
DDecide(c) ==
    /\ cdd[c].pc = "decide"
    /\ cdd' = [cdd EXCEPT ![c] =
                 [@ EXCEPT !.new_handler =
                               IF takes_duty(World, c, cdd[c].curr_handler)
                               THEN c ELSE cdd[c].curr_handler,
                           !.pc = "update"]]
    /\ UNCHANGED tick_do_timer_cpu
    /\ DFrame

\* prev_handler = update_do_timer_cpu(curr_handler, new_handler)
DUpdate(c) ==
    /\ cdd[c].pc = "update"
    /\ LET u == update_do_timer_cpu(World, cdd[c].curr_handler, cdd[c].new_handler)
       IN /\ tick_do_timer_cpu' = u.w.tick_do_timer_cpu
          /\ cdd' = [cdd EXCEPT ![c] = [@ EXCEPT !.prev_handler = u.ret,
                                                 !.pc = "after"]]
    /\ DFrame

\* The recheck of nr_cpus_user_nohz and the way out.
DAfter(c) ==
    /\ cdd[c].pc = "after"
    /\ LET d == cdd[c] IN
       cdd' = [cdd EXCEPT ![c] =
                 IF d.drop_recheck /\ nr_cpus_user_nohz > 0
                 THEN [@ EXCEPT !.pc = "repeat"]
                 ELSE IF d.new_handler # TICK_DO_TIMER_NONE
                 THEN IF d.prev_handler = d.curr_handler
                      THEN [@ EXCEPT !.ret = d.new_handler, !.pc = "idle"]
                      ELSE [@ EXCEPT !.pc = "repeat"]
                 ELSE [@ EXCEPT !.ret = IF d.prev_handler = c
                                        THEN TICK_DO_TIMER_NONE
                                        ELSE d.prev_handler,
                                !.pc = "idle"]]
    /\ UNCHANGED tick_do_timer_cpu
    /\ DFrame

(* ------------- the handlers' duty check, one access at a time --------- *)
\* The handlers test tick_do_timer_cpu and store to it with plain accesses;
\* the other CPUs run between the two.  cdd[c].pc = "store" is the handler
\* of CPU c after it read TICK_DO_TIMER_NONE and before its store; the CPU
\* has interrupts off and does nothing else there.
OutsideHandler(c) == cdd[c].pc = "idle"

\* if (unlikely(tick_do_timer_cpu == TICK_DO_TIMER_NONE)): the read, of NONE.
HReadNone(c) ==
    /\ TickDue(c)
    /\ cdd[c].pc = "idle"
    /\ tick_do_timer_cpu = TICK_DO_TIMER_NONE
    /\ cdd' = [cdd EXCEPT ![c].pc = "store"]
    /\ UNCHANGED tick_do_timer_cpu
    /\ DFrame

\* tick_do_timer_cpu = cpu, and the handler from there to the interrupt's
\* exit.
HStore(c) ==
    /\ cdd[c].pc = "store"
    /\ cdd' = [cdd EXCEPT ![c].pc = "idle"]
    /\ \E in \in IrqExitIns(c) :
         Land(tick_interrupt([World EXCEPT !.tick_do_timer_cpu = c], c, in))

(* --------------------------- specifications --------------------------- *)
\* The state as constructed with the CPUs of On online (each in its idle
\* task, its device in periodic mode) and those of A in an adaptive cpuset.
World0(On, A, tr) ==
    [now |-> 0, jiffies |-> 0, last_jiffies_update |-> 0,
     tick_next_period |-> 0, tick_do_timer_cpu |-> 0,
     nr_cpus_user_nohz |-> 0, ts |-> [c \in CPUs |-> TsInit],
     dev |-> [c \in CPUs |->
                IF c \in On THEN DevInit
                ELSE [next_event |-> KTIME_MAX, hw |-> KTIME_MAX, hres |-> FALSE]],
     task |-> [c \in CPUs |->
                IF c \in On THEN TaskInit(c \in A)
                ELSE [cur |-> "none", umode |-> FALSE, online |-> FALSE,
                      adaptive |-> c \in A]],
     acct |-> [c \in CPUs |-> AcctInit],
     track |-> tr, raised |-> {}]

StateIs(w) ==
    /\ now = w.now
    /\ jiffies = w.jiffies
    /\ last_jiffies_update = w.last_jiffies_update
    /\ tick_next_period = w.tick_next_period
    /\ tick_do_timer_cpu = w.tick_do_timer_cpu
    /\ nr_cpus_user_nohz = w.nr_cpus_user_nohz
    /\ ts = w.ts
    /\ dev = w.dev
    /\ task = w.task
    /\ acct = w.acct
    /\ cdd = [c \in CPUs |-> CddInit]
    /\ track = w.track
    /\ xtime_lock = TICK_DO_TIMER_NONE
    /\ upd = [c \in CPUs |-> [pc |-> "idle", now |-> 0, delta |-> 0, calls |-> 0]]

\* Boot: after a clock notification CPUs 0 .. n-1 run hrtimer_run_pending.
RECURSIVE BootAll(_, _, _)
BootAll(w, n, in) ==
    IF n = 0 THEN tick_clock_notify(w)
    ELSE hrtimer_run_pending(BootAll(w, n - 1, in), n - 1, in)

HresIn == [allow_nohz |-> FALSE, oneshot_ok |-> TRUE, switch_ok |-> TRUE]

\* Idle and adaptive together: every CPU has switched to the high resolution
\* tick at time 0, the last CPU, of an adaptive cpuset, runs a task in user
\* mode and the others stay with their idle tasks; ticks are served before
\* time moves on.
Init ==
    /\ tick_nohz_enabled = TRUE
    /\ StateIs(schedule(BootAll(World0(CPUs, {NCpus - 1},
                                       [NoTrack EXCEPT !.prompt = TRUE]),
                                NCpus, HresIn),
                        NCpus - 1, "user", TRUE, 0))

Next ==
    \/ AdvanceTime
    \/ \E c \in CPUs : IdleEnter(c)
    \/ \E c \in CPUs : IdleExit(c)
    \/ \E c \in CPUs : DeviceInterrupt(c)
    \/ \E c \in CPUs : TickInterrupt(c)

Spec == Init /\ [][Next]_vars

\* One CPU from its construction on: CPU 0 alone is online, in periodic
\* mode, and switches to a oneshot mode when the clocks allow.  The run
\* records the accounting sinks and lets time pass inside the handlers.
InitUp ==
    /\ tick_nohz_enabled \in BOOLEAN
    /\ \E A \in SUBSET {0} :
         StateIs(World0({0}, A, [NoTrack EXCEPT !.acct = TRUE, !.lag = TRUE]))

NextUp ==
    \/ AdvanceTime
    \/ ClockNotify
    \/ \E c \in CPUs : RunPending(c)
    \/ \E c \in CPUs : IdleEnter(c)
    \/ \E c \in CPUs : IdleExit(c)
    \/ \E c \in CPUs : DeviceInterrupt(c)
    \/ \E c \in CPUs : TickInterrupt(c)
    \/ \E c \in CPUs : SchedIpi(c)
    \/ \E c \in CPUs : ExitNohzIpi(c)
    \/ \E c \in CPUs : EnterKernel(c)
    \/ \E c \in CPUs : ExitKernel(c)
    \/ \E c \in CPUs : Schedule(c)
    \/ \E c \in CPUs : RestartSchedTick(c)
    \/ \E c \in CPUs : FlushCurrentTimes(c)

SpecUp == InitUp /\ [][NextUp]_vars

\* A housekeeping CPU and the others: CPU 0 runs a kernel thread that never
\* yields, so it keeps its tick and the do_timer duty, and the other CPUs,
\* of an adaptive cpuset, go through everything a CPU can do.  The run
\* records the accounting sinks; ticks are served before time moves on.
Others == CPUs \ {0}

InitHk ==
    /\ tick_nohz_enabled = TRUE
    /\ StateIs(schedule(BootAll(World0(CPUs, Others,
                                       [NoTrack EXCEPT !.prompt = TRUE,
                                                       !.acct = TRUE]),
                                NCpus, HresIn),
                        0, "kthread", FALSE, 0))

NextHk ==
    \/ AdvanceTime
    \/ \E c \in CPUs : TickInterrupt(c)
    \/ \E c \in Others : DeviceInterrupt(c)
    \/ \E c \in Others : IdleEnter(c)
    \/ \E c \in Others : IdleExit(c)
    \/ \E c \in Others : SchedIpi(c)
    \/ \E c \in Others : ExitNohzIpi(c)
    \/ \E c \in Others : EnterKernel(c)
    \/ \E c \in Others : ExitKernel(c)
    \/ \E c \in Others : Schedule(c)

SpecHk == InitHk /\ [][NextHk]_vars

\* The tick modes: next to the housekeeping CPU the other CPUs, of an
\* adaptive cpuset, are in periodic, low or high resolution mode, as the
\* clocks allowed at boot, and idle or run tasks.
InitModes ==
    /\ tick_nohz_enabled = TRUE
    /\ \E in \in {i \in ModeIns : i.switch_ok} :
         StateIs(BootAll(schedule(BootAll(World0(CPUs, Others,
                                                 [NoTrack EXCEPT !.prompt = TRUE]),
                                          1, HresIn),
                                  0, "kthread", FALSE, 0),
                         NCpus, in))

NextModes ==
    \/ AdvanceTime
    \/ \E c \in CPUs : TickInterrupt(c)
    \/ \E c \in Others : DeviceInterrupt(c)
    \/ \E c \in Others : IdleEnter(c)
    \/ \E c \in Others : IdleExit(c)
    \/ \E c \in Others : Schedule(c)

SpecModes == InitModes /\ [][NextModes]_vars

\* The idle loop of one CPU with its idle statistics recorded: CPU 0 alone
\* is online, in either oneshot mode, and runs its idle task.
InitIdle ==
    /\ tick_nohz_enabled = TRUE
    /\ \E in \in {i \in ModeIns : i.oneshot_ok /\ i.switch_ok} :
         StateIs(BootAll(World0({0}, {}, [NoTrack EXCEPT !.stats = TRUE]), 1, in))

NextIdle ==
    \/ AdvanceTime
    \/ \E c \in CPUs : IdleEnter(c)
    \/ \E c \in CPUs : IdleExit(c)
    \/ \E c \in CPUs : DeviceInterrupt(c)
    \/ \E c \in CPUs : TickInterrupt(c)
    \/ \E c \in CPUs : GetCpuIdleTime(c)
    \/ \E c \in CPUs : GetCpuIowaitTime(c)

SpecIdle == InitIdle /\ [][NextIdle]_vars


\* The duty protocol under interleaving: CPU 0, in its idle task, calls
\* check_drop_timer_duty one access at a time, while the other CPUs, of an
\* adaptive cpuset, take interrupts, idle and run tasks.
InitDuty ==
    /\ tick_nohz_enabled = TRUE
    /\ StateIs(BootAll(World0(CPUs, Others, NoTrack), NCpus, HresIn))

NextDuty ==
    \/ AdvanceTime
    \/ DCall(0)
    \/ DRepeat(0)
    \/ DReadHandler(0)
    \/ DDecide(0)
    \/ DUpdate(0)
    \/ DAfter(0)
    \/ \E c \in Others : TickInterrupt(c)
    \/ \E c \in Others : DeviceInterrupt(c)
    \/ \E c \in Others : IdleEnter(c)
    \/ \E c \in Others : IdleExit(c)
    \/ \E c \in Others : Schedule(c)

SpecDuty == InitDuty /\ [][NextDuty]_vars


\* An adaptive cpuset with nobody to keep house: CPU 0 has the do_timer
\* duty from boot and runs a task in user mode; the other CPUs, of the same
\* cpuset, idle, run tasks and take interrupts.  Ticks are served before
\* time moves on.
InitPair ==
    /\ tick_nohz_enabled = TRUE
    /\ StateIs(schedule(BootAll(World0(CPUs, CPUs,
                                       [NoTrack EXCEPT !.prompt = TRUE]),
                                NCpus, HresIn),
                        0, "user", TRUE, 0))

NextPair ==
    \/ AdvanceTime
    \/ \E c \in CPUs : TickInterrupt(c)
    \/ \E c \in Others : DeviceInterrupt(c)
    \/ \E c \in Others : IdleEnter(c)
    \/ \E c \in Others : IdleExit(c)
    \/ \E c \in Others : Schedule(c)

SpecPair == InitPair /\ [][NextPair]_vars


\* Booted with nohz=off: every CPU starts with the periodic tick and may
\* switch to high resolution timers; the CPUs other than 0 are of an
\* adaptive cpuset; all of them idle, run tasks and take interrupts.
InitOff ==
    /\ tick_nohz_enabled = FALSE
    /\ StateIs(World0(CPUs, Others, NoTrack))

NextOff ==
    \/ AdvanceTime
    \/ ClockNotify
    \/ \E c \in CPUs : RunPending(c)
    \/ \E c \in CPUs : TickInterrupt(c)
    \/ \E c \in CPUs : DeviceInterrupt(c)
    \/ \E c \in CPUs : IdleEnter(c)
    \/ \E c \in CPUs : IdleExit(c)
    \/ \E c \in CPUs : Schedule(c)

SpecOff == InitOff /\ [][NextOff]_vars


\* CPU hotplug: every CPU starts with the periodic tick; the boot CPU keeps
\* it and the do_timer duty, the others switch to a oneshot mode when the
\* clocks allow, idle, take interrupts, and may be taken offline and torn
\* down.
InitPlug ==
    /\ tick_nohz_enabled = TRUE
    /\ StateIs(World0(CPUs, {}, NoTrack))

NextPlug ==
    \/ AdvanceTime
    \/ ClockNotify
    \/ \E c \in CPUs : TickInterrupt(c)
    \/ \E c \in Others : RunPending(c)
    \/ \E c \in Others : DeviceInterrupt(c)
    \/ \E c \in Others : IdleEnter(c)
    \/ \E c \in Others : task[c].online /\ IdleExit(c)
    \/ \E c \in Others : CpuOffline(c)
    \/ \E c \in Others : CpuDead(c)

SpecPlug == InitPlug /\ [][NextPlug]_vars


\* The tick handlers' duty check one access at a time: every CPU idles and
\* takes its tick, and the other CPUs, of an adaptive cpuset, run tasks
\* too.
NextRace ==
    \/ AdvanceTime
    \/ \E c \in CPUs : HReadNone(c)
    \/ \E c \in CPUs : HStore(c)
    \/ \E c \in CPUs : OutsideHandler(c) /\ TickInterrupt(c)
    \/ \E c \in CPUs : OutsideHandler(c) /\ IdleEnter(c)
    \/ \E c \in CPUs : OutsideHandler(c) /\ IdleExit(c)
    \/ \E c \in Others : OutsideHandler(c) /\ Schedule(c)

SpecRace == InitDuty /\ [][NextRace]_vars


(* ------------------------------- claims ------------------------------- *)

\* C1: under any interleaving of tick_do_update_jiffies64 calls from all
\* CPUs, jiffies never decreases, the ticks counted so far are the whole
\* periods last_jiffies_update has moved, and every step that adds ticks is
\* the lock holder's, adding floor((now - last_jiffies_update) / tick_period)
\* for the time it was called with: no period is counted twice.
C1_JiffiesCountPeriods ==
    /\ [](/\ jiffies * TickPeriod = last_jiffies_update
          /\ last_jiffies_update <= now)
    /\ [][/\ jiffies' >= jiffies
          /\ jiffies' # jiffies =>
               \E c \in CPUs :
                 /\ xtime_lock = c
                 /\ jiffies' - jiffies =
                      (upd[c].now - last_jiffies_update) \div TickPeriod
                 /\ last_jiffies_update' - last_jiffies_update =
                      TickPeriod * (jiffies' - jiffies)]_vars

\* A CPU holds the lock for a period that another CPU has counted already.
C1_Witness ==
    \E c \in CPUs :
      /\ upd[c].pc = "locked"
      /\ upd[c].delta >= TickPeriod
      /\ LockedDelta(c) < TickPeriod
      /\ jiffies > 0

\* C3: at every operation boundary nr_cpus_user_nohz is the number of CPUs
\* whose user_nohz flag is set, and it is not negative.
C3_CountMatchesFlags ==
    /\ nr_cpus_user_nohz = Cardinality({c \in CPUs : ts[c].user_nohz})
    /\ nr_cpus_user_nohz >= 0

\* A CPU is marked and counted, its tick stopped under a user task.
C3_Witness ==
    \E c \in CPUs :
      /\ ts[c].user_nohz /\ ts[c].tick_stopped
      /\ task[c].cur = "user"
      /\ nr_cpus_user_nohz = 1

\* C2: jiffies keeps advancing.  Only an armed tick timer is sure to fire,
\* so at every operation boundary some CPU must have its tick timer armed:
\* from a state in which no CPU has, nothing that is bound to happen
\* updates jiffies, however long real time moves on.
C2_SomeTickArmed == \E c \in CPUs : task[c].online /\ ts[c].active

\* The deadline CPU c's next wake-up is armed for (KTIME_MAX: none).
wakeup(w, c) ==
    IF w.dev[c].hres
    THEN IF w.ts[c].active THEN w.ts[c].expires ELSE KTIME_MAX
    ELSE w.dev[c].hw

\* The worlds in which CPU c, as it is now, calls tick_nohz_stop_sched_tick
\* with the answers in: from the exit of an interrupt, or from idle entry.
StopCallWorlds(c, in) ==
    LET ks == {irq_exit_stop_call(irq_enter(World, c, in), c, in)}
              \cup IF task[c].cur = "idle" /\ ~ts[c].inidle
                   THEN {idle_stop_call([World EXCEPT !.ts[c].inidle = TRUE], c, in)}
                   ELSE {}
    IN {k.w : k \in {x \in ks : x.called /\ task[c].online}}

\* The call gets as far as the duty check (lines 424, 427).
reaches_duty_check(w, c, in) ==
    /\ ~(~w.ts[c].tick_stopped /\ delta_jiffies(in) = 1)
    /\ delta_jiffies(in) >= 1

\* C8: when nr_cpus_user_nohz > 0 and a CPU's tick_nohz_stop_sched_tick call
\* claims or retains the do_timer duty, the CPU's next wake-up after the
\* call is armed no later than last_update + timekeeping_max_deferment,
\* whatever the next timer is and whether or not its tick was stopped before.
C8_DutyKeeperSleepCapped ==
    \A c \in CPUs, in \in AllIns :
      \A w \in StopCallWorlds(c, in) :
        (/\ w.nr_cpus_user_nohz > 0
         /\ reaches_duty_check(w, c, in)
         /\ check_drop_timer_duty(w, c).ret = c)
        => wakeup(tick_nohz_stop_sched_tick(w, c, in).w, c)
             <= w.last_jiffies_update + timekeeping_max_deferment

\* The world in which CPU c, entering idle now (tick_nohz_idle_enter), calls
\* tick_nohz_stop_sched_tick with the answers in.
IdleEntryWorlds(c, in) ==
    LET k == idle_stop_call([World EXCEPT !.ts[c].inidle = TRUE], c, in) IN
    IF task[c].online /\ task[c].cur = "idle" /\ ~ts[c].inidle /\ k.called
    THEN {k.w} ELSE {}

\* What C7 expects of the call in world w: the holder's tick stopped, the
\* duty dropped and the wake-up at last_update + min(timekeeping_max_deferment,
\* tick_period * delta); a CPU that neither holds the duty nor held it last
\* armed at last_update + tick_period * delta, or not at all when no timer
\* is pending.
C7_Expected(w, c, in) ==
    LET r == tick_nohz_stop_sched_tick(w, c, in).w
        delta == delta_jiffies(in)
    IN /\ w.tick_do_timer_cpu = c =>
            /\ r.ts[c].tick_stopped
            /\ r.tick_do_timer_cpu = TICK_DO_TIMER_NONE
            /\ wakeup(r, c) = w.last_jiffies_update
                                + Min(timekeeping_max_deferment, TickPeriod * delta)
       /\ (w.tick_do_timer_cpu # c /\ ~w.ts[c].do_timer_last) =>
            /\ r.ts[c].tick_stopped
            /\ r.tick_do_timer_cpu = w.tick_do_timer_cpu
            /\ wakeup(r, c) = IF delta < NEXT_TIMER_MAX_DELTA
                              THEN w.last_jiffies_update + TickPeriod * delta
                              ELSE KTIME_MAX

VetoIns ==
    {[i EXCEPT !.need_resched = nr, !.softirq_pending = sp] :
        i \in StopIns \cup AdaptiveVetoes, nr \in BOOLEAN, sp \in BOOLEAN}

\* One of the conditions C10 names holds for CPU c.
vetoed(w, c, in) ==
    \/ w.ts[c].nohz_mode = "INACTIVE"
    \/ in.need_resched
    \/ in.softirq_pending /\ w.task[c].online

\* From w to r the tick of CPU c was not stopped, and neither its timer nor
\* the do_timer duty touched.
tick_left_alone(w, r, c) ==
    /\ ~w.ts[c].tick_stopped => ~r.ts[c].tick_stopped
    /\ r.ts[c].expires = w.ts[c].expires
    /\ r.ts[c].active = w.ts[c].active
    /\ r.ts[c].last_tick = w.ts[c].last_tick
    /\ r.dev[c] = w.dev[c]
    /\ r.tick_do_timer_cpu = w.tick_do_timer_cpu

\* CPU c enters idle now.
EntersIdle(c) == task[c].online /\ task[c].cur = "idle" /\ ~ts[c].inidle

\* C10 as stated: tick_nohz_idle_enter and tick_nohz_irq_exit never stop the
\* tick, nor touch the timer or the duty, when the CPU's mode is INACTIVE,
\* need_resched() is set or a softirq is pending on the online CPU.
C10_AsStated ==
    \A c \in CPUs, in \in VetoIns :
      /\ (EntersIdle(c) /\ vetoed(World, c, in))
           => tick_left_alone(World, tick_nohz_idle_enter(World, c, in), c)
      /\ LET w == irq_enter(World, c, in) IN
         (task[c].online /\ vetoed(w, c, in))
           => tick_left_alone(w, tick_nohz_irq_exit(w, c, in), c)

\* C10, amended: the three conditions keep the tick running on idle entry
\* and on the interrupt exit of a CPU in its idle loop; on the interrupt
\* exit of a busy CPU only the INACTIVE mode does.
C10_VetoKeepsIdleTick ==
    \A c \in CPUs, in \in VetoIns :
      /\ (EntersIdle(c) /\ vetoed(World, c, in))
           => tick_left_alone(World, tick_nohz_idle_enter(World, c, in), c)
      /\ LET w == irq_enter(World, c, in) IN
         (/\ task[c].online
          /\ IF w.ts[c].inidle THEN vetoed(w, c, in)
             ELSE w.ts[c].nohz_mode = "INACTIVE" /\ ~w.ts[c].tick_stopped)
           => tick_left_alone(w, tick_nohz_irq_exit(w, c, in), c)

\* An interrupt returns to a CPU in its idle loop whose tick runs: the exit
\* would stop the tick, and with a softirq pending it does not.
C10_Witness ==
    \E c \in CPUs, in \in StopIns :
      LET w == irq_enter(World, c, in) IN
      /\ task[c].online /\ w.ts[c].inidle /\ ~w.ts[c].tick_stopped
      /\ tick_nohz_irq_exit(w, c, in).ts[c].tick_stopped
      /\ ~tick_nohz_irq_exit(w, c, [in EXCEPT !.softirq_pending = TRUE])
            .ts[c].tick_stopped

\* The answers of a second call about the same pending timer, when the
\* first call started from jiffies j0 and left jiffies at j1.
same_timer(in, j0, j1) ==
    IF in.needs_cpu \/ in.nt = NEXT_TIMER_MAX_DELTA THEN in
    ELSE [in EXCEPT !.nt = Max(0, in.nt - ((j1 - j0) % ULongMod))]

\* The timer of CPU c, its tick_stopped flag and the snapshot last_tick are
\* the same in w and r.
same_tick_state(w, r, c) ==
    /\ r.ts[c].expires = w.ts[c].expires
    /\ r.ts[c].active = w.ts[c].active
    /\ r.dev[c] = w.dev[c]
    /\ r.ts[c].tick_stopped = w.ts[c].tick_stopped
    /\ r.ts[c].last_tick = w.ts[c].last_tick

\* The first call in world w arms a deadline that the clock has passed.
arms_in_the_past(w, c, in) ==
    LET e == stop_expires(w, c, in, w.tick_do_timer_cpu,
                          check_drop_timer_duty(w, c).ret)
    IN /\ reaches_duty_check(w, c, in)
       /\ check_drop_timer_duty(w, c).ret # c
       /\ ~(w.ts[c].tick_stopped /\ e = w.dev[c].next_event)
       /\ e <= w.now + in.lag

enter_then_exit(c, in, io) ==
    tick_nohz_idle_exit(tick_nohz_idle_enter(World, c, in), c,
                        [in EXCEPT !.iowait = io, !.lag = 0])

\* C6: idle entry immediately followed by idle exit, with no time elapsed,
\* leaves idle_sleeptime and iowait_sleeptime unchanged, and leaves
\* tick_stopped false if it was false before the entry, whether or not the
\* entry stopped the tick.
C6_EnterExitIdleNeutral ==
    \A c \in CPUs, in \in IdleIns, io \in BOOLEAN :
      EntersIdle(c) =>
        LET x == enter_then_exit(c, in, io) IN
        /\ x.ts[c].idle_sleeptime = ts[c].idle_sleeptime
        /\ x.ts[c].iowait_sleeptime = ts[c].iowait_sleeptime
        /\ (~ts[c].tick_stopped => ~x.ts[c].tick_stopped)

\* A CPU that has idle and iowait time on record is about to enter idle with
\* answers that make the entry stop the tick.
C6_Witness ==
    \E c \in CPUs, in \in StopIns :
      /\ EntersIdle(c) /\ ~ts[c].tick_stopped
      /\ ts[c].idle_sleeptime > 0 /\ ts[c].iowait_sleeptime > 0
      /\ tick_nohz_idle_enter(World, c, in).ts[c].tick_stopped
      /\ ~enter_then_exit(c, in, FALSE).ts[c].tick_stopped

\* CPU c runs a task of an adaptive cpuset with its tick stopped and is
\* counted in nr_cpus_user_nohz.
BusyAdaptiveStopped(c) ==
    /\ task[c].online /\ task[c].cur # "idle"
    /\ ts[c].tick_stopped /\ ts[c].user_nohz

\* The accounting sink named by a saved_jiffies_whence value.
bucket_of(whence) ==
    CASE whence = "IDLE" -> "idle" [] whence = "USER" -> "user"
      [] whence = "SYS" -> "sys" [] OTHER -> "none"

\* From w to r exactly n ticks went to the bucket named by whence and none
\* to any other.
attributed(w, r, c, whence, n) ==
    \A b \in {"idle", "user", "sys"} :
      r.acct[c][b] = IF b = bucket_of(whence)
                     THEN (w.acct[c][b] + n) % ULongMod ELSE w.acct[c][b]

\* The tick timer of CPU c is armed for a time ahead.
tick_armed(w, c) ==
    IF w.dev[c].hres THEN w.ts[c].active /\ w.ts[c].expires > w.now
    ELSE w.dev[c].hw = w.ts[c].expires /\ w.dev[c].hw > w.now

\* From w to r the tick of CPU c was restored and the CPU uncounted.
tick_restored(w, r, c) ==
    /\ ~r.ts[c].tick_stopped
    /\ tick_armed(r, c)
    /\ ~r.ts[c].user_nohz
    /\ r.nr_cpus_user_nohz = w.nr_cpus_user_nohz - 1

\* tick_nohz_check_adaptive on CPU c with one eligibility test failing.
check_ineligible(c, in, l) ==
    tick_nohz_check_adaptive(World, c, [in EXCEPT !.lag = l])

\* C9 as stated: on a busy adaptive CPU with its tick stopped, a
\* tick_nohz_check_adaptive call that finds the CPU ineligible restores the
\* tick, uncounts the CPU, and attributes exactly jiffies - saved_jiffies
\* ticks to the bucket named by saved_jiffies_whence.
C9_AsStated ==
    \A c \in CPUs, in \in AdaptiveVetoes, l \in Lags :
      BusyAdaptiveStopped(c) =>
        LET r == check_ineligible(c, in, l) IN
        /\ tick_restored(World, r, c)
        /\ track.acct =>
             attributed(World, r, c, ts[c].saved_jiffies_whence,
                        elapsed_ticks(World, c))

\* C9, amended: the same, with the flush attributing jiffies - saved_jiffies
\* ticks when saved_jiffies is not ahead of jiffies, and none when it is (a
\* tick that fired on the stopped CPU was counted before jiffies moved).
C9_IneligibleRestoresAndFlushes ==
    \A c \in CPUs, in \in AdaptiveVetoes, l \in Lags :
      BusyAdaptiveStopped(c) =>
        LET r == check_ineligible(c, in, l) IN
        /\ tick_restored(World, r, c)
        /\ track.acct =>
             attributed(World, r, c, ts[c].saved_jiffies_whence,
                        IF elapsed_ticks(World, c) < LONG_MAX
                        THEN elapsed_ticks(World, c) ELSE 0)

\* A busy adaptive CPU with its tick stopped has ticks to flush to the user
\* or system bucket, and the check restores its tick.
C9_Witness ==
    \E c \in CPUs, in \in AdaptiveVetoes :
      /\ BusyAdaptiveStopped(c)
      /\ elapsed_ticks(World, c) \in 1 .. (LONG_MAX - 1)
      /\ ts[c].saved_jiffies_whence \in {"USER", "SYS"}
      /\ acct[c].open
      /\ tick_restored(World, check_ineligible(c, in, 0), c)

\* The ticks attributed to CPU c since its tick was stopped.
attributed_ticks(a) == (a.idle + a.user + a.sys) % ULongMod

\* C4: when a stop-to-resume cycle of a CPU ends, the ticks attributed to
\* idle, user and system over the cycle, by the flushes and by the ticks that
\* fired meanwhile, equal the advance of jiffies over the cycle.
C4_CycleConservesTicks ==
    [][\A c \in CPUs :
          (acct[c].open /\ ~acct'[c].open) =>
             attributed_ticks(acct'[c]) = (jiffies' - acct[c].j0) % ULongMod]_vars

\* rcu_needs_cpu, printk_needs_cpu or arch_needs_cpu holds for the caller.
NeedsCpuIns == {[NoIn EXCEPT !.needs_cpu = TRUE, !.lag = l] : l \in Lags}

C12_PastDeadlineKeepsWakeup ==
    \A c \in CPUs, in \in AllIns, l \in Lags :
      \A w \in StopCallWorlds(c, [in EXCEPT !.lag = l]) :
        LET r == tick_nohz_stop_sched_tick(w, c, [in EXCEPT !.lag = l]).w IN
        arms_in_the_past(w, c, [in EXCEPT !.lag = l]) =>
          /\ r.jiffies = (w.jiffies + 1) % ULongMod
               \/ r.jiffies = (w.jiffies + 2) % ULongMod
          /\ c \in r.raised
          /\ ~(r.ts[c].tick_stopped /\ wakeup(r, c) = KTIME_MAX)

\* jiffies - saved_jiffies of CPU c is zero or has wrapped (saved_jiffies is
\* ahead of jiffies).
implausible_elapsed(w, c) ==
    elapsed_ticks(w, c) = 0 \/ elapsed_ticks(w, c) >= LONG_MAX

\* C13: on every flush path of a CPU whose tick is stopped
\* (tick_nohz_flush_current_times, tick_nohz_enter_kernel,
\* tick_nohz_exit_kernel), when jiffies - saved_jiffies is zero or wraps, no
\* accounting sink receives anything.
C13_NoImplausibleFlush ==
    \A c \in CPUs :
      (/\ task[c].online /\ ts[c].tick_stopped /\ acct[c].open
       /\ implausible_elapsed(World, c))
      => /\ \A b \in BOOLEAN :
              tick_nohz_flush_current_times(World, c, b).acct[c] = acct[c]
         /\ (task[c].cur = "user" /\ task[c].umode) =>
              tick_nohz_enter_kernel(World, c).acct[c] = acct[c]
         /\ (task[c].cur = "user" /\ ~task[c].umode) =>
              tick_nohz_exit_kernel(World, c).acct[c] = acct[c]

\* C14: one check_drop_timer_duty call goes through its body at most twice
\* (WARN_ON_ONCE(++nrepeat > 1) never fires), whatever the other CPUs do to
\* tick_do_timer_cpu and nr_cpus_user_nohz meanwhile.
C14_AtMostOneRepeat == \A c \in CPUs : cdd[c].nrepeat <= 1

\* What a call that finds nr_cpus_user_nohz = 0 may do: r is its outcome in
\* world w on CPU c.
drops_own_duty_only(w, c, r) ==
    /\ r.w = [w EXCEPT !.tick_do_timer_cpu =
                  IF w.tick_do_timer_cpu = c THEN TICK_DO_TIMER_NONE ELSE @]
    /\ r.ret = r.w.tick_do_timer_cpu

\* The worlds in which CPU c's tick_nohz_stop_sched_tick call gets to its
\* duty check.
DutyCheckWorlds(c) ==
    UNION {StopCallWorlds(c, in) :
               in \in {i \in AllIns : reaches_duty_check(World, c, i)}}

\* C15: a check_drop_timer_duty call that finds nr_cpus_user_nohz = 0
\* changes tick_do_timer_cpu only if it holds the caller's id, which becomes
\* TICK_DO_TIMER_NONE; a duty held by another CPU is left as it is; and the
\* call returns the value tick_do_timer_cpu has after its update.
C15_DropOnlyOwnDuty ==
    \A c \in CPUs : \A w \in DutyCheckWorlds(c) :
        w.nr_cpus_user_nohz = 0 =>
            drops_own_duty_only(w, c, check_drop_timer_duty(w, c))

\* Both cases at once: the holder's call drops the duty, another CPU's call
\* leaves it with the holder and returns the holder.
C15_Witness ==
    \E c \in CPUs : \E d \in CPUs \ {c} :
        \E w \in DutyCheckWorlds(c) : \E v \in DutyCheckWorlds(d) :
            /\ w.nr_cpus_user_nohz = 0 /\ w.tick_do_timer_cpu = c
            /\ check_drop_timer_duty(w, c).w.tick_do_timer_cpu = TICK_DO_TIMER_NONE
            /\ check_drop_timer_duty(w, c).ret = TICK_DO_TIMER_NONE
            /\ v.nr_cpus_user_nohz = 0 /\ v.tick_do_timer_cpu = c
            /\ check_drop_timer_duty(v, d).w.tick_do_timer_cpu = c
            /\ check_drop_timer_duty(v, d).ret = c

\* The holder is marked for adaptive nohz and the caller is one that takes
\* the duty from such a holder.
takes_from_busy_holder(w, c) ==
    /\ w.tick_do_timer_cpu # TICK_DO_TIMER_NONE
    /\ w.ts[w.tick_do_timer_cpu].user_nohz
    /\ (w.task[c].cur = "idle" \/ ~w.task[c].adaptive)

\* What a call that finds nr_cpus_user_nohz > 0 does, r being its outcome
\* in world w on CPU c; regular: the holder it defers to is not marked.
claims_or_defers(w, c, r, regular) ==
    LET h == w.tick_do_timer_cpu IN
    /\ r.w.tick_do_timer_cpu # TICK_DO_TIMER_NONE
    /\ h = c => r.w = w /\ r.ret = c
    /\ h # c /\ (h = TICK_DO_TIMER_NONE \/ takes_from_busy_holder(w, c)) =>
           r.w = [w EXCEPT !.tick_do_timer_cpu = c] /\ r.ret = c
    /\ h # c /\ h # TICK_DO_TIMER_NONE /\ ~takes_from_busy_holder(w, c) =>
           /\ r.w = w /\ r.ret = h
           /\ regular => ~w.ts[h].user_nohz

C17_DisabledStaysInactive ==
    ~tick_nohz_enabled =>
        \A c \in CPUs : ts[c].nohz_mode = "INACTIVE" /\ ~ts[c].tick_stopped

\* With nohz off, a CPU that has switched to high resolution timers sits in
\* its idle loop, and a CPU of the adaptive cpuset runs a task in high
\* resolution mode too.
C17_Witness ==
    /\ ~tick_nohz_enabled
    /\ \E c \in CPUs : dev[c].hres /\ ts[c].inidle /\ ts[c].idle_active
    /\ \E c \in CPUs : dev[c].hres /\ task[c].adaptive /\ task[c].cur = "kthread"

\* C18: get_cpu_idle_time_us and get_cpu_iowait_time_us called with
\* last_update_time = NULL change nothing, the idle counters and
\* idle_entrytime included, and return what the same call with a
\* last_update_time returns in the same state at the same time.
C18_ReadOnlyGetterAgrees ==
    \A c \in CPUs : \A in \in IowaitIns :
        /\ get_cpu_idle_time_us(World, c, FALSE, in).w = World
        /\ get_cpu_idle_time_us(World, c, FALSE, in).ret
               = get_cpu_idle_time_us(World, c, TRUE, in).ret
        /\ get_cpu_iowait_time_us(World, c, FALSE, in).w = World
        /\ get_cpu_iowait_time_us(World, c, FALSE, in).ret
               = get_cpu_iowait_time_us(World, c, TRUE, in).ret

\* A CPU has been idle for a while since its counters were last brought up
\* to date, so that the updating call writes and both return more than the
\* stored counter, once with I/O pending and once without.
C18_Witness ==
    \E c \in CPUs :
        /\ ts[c].idle_active
        /\ ts[c].idle_sleeptime + ts[c].iowait_sleeptime > 0
        /\ \E in \in IowaitIns :
             /\ get_cpu_idle_time_us(World, c, TRUE, in).w # World
             /\ get_cpu_idle_time_us(World, c, FALSE, in).ret
                    > ktime_to_us(ts[c].idle_sleeptime)
        /\ \E in \in IowaitIns :
             get_cpu_iowait_time_us(World, c, FALSE, in).ret
                 > ktime_to_us(ts[c].iowait_sleeptime)

\* C19: whenever a CPU's tick is running (tick_stopped false) its
\* saved_jiffies_whence is JIFFIES_SAVED_NONE, so the WARN_ON_ONCE of
\* tick_nohz_cpuset_stop_tick, made when it newly stops the tick, never
\* fires; whatever idle exits, adaptive restarts, IPIs, schedule hooks and
\* direct restarts happen.
C19_RunningTickHasNoWhence ==
    \A c \in CPUs :
        ~ts[c].tick_stopped => ts[c].saved_jiffies_whence = "NONE"

\* The call newly stops the tick of CPU c: w before, r after.
newly_stopped(w, r, c) == ~w.ts[c].tick_stopped /\ r.ts[c].tick_stopped

\* C20: tick_nohz_cpuset_stop_tick never newly stops the tick when the
\* interrupt hit the kernel mode of a task with an mm, nor when current is
\* the idle task; when it newly stops the tick it leaves
\* saved_jiffies_whence at JIFFIES_SAVED_USER for an interrupt from user
\* mode and at JIFFIES_SAVED_SYS for a kernel thread, and saved_jiffies at
\* the value of jiffies.
C20_StopsOnlyFromUserOrKthread ==
    \A c \in CPUs : \A in \in AllIns : \A l \in Lags :
        LET w == World
            r == tick_nohz_cpuset_stop_tick(w, c, [in EXCEPT !.lag = l])
        IN ~w.ts[c].inidle =>
            /\ ~user_mode(w, c) /\ has_mm(w, c) => ~newly_stopped(w, r, c)
            /\ is_idle_task(w, c) => r = w
            /\ newly_stopped(w, r, c) =>
                 /\ user_mode(w, c) => r.ts[c].saved_jiffies_whence = "USER"
                 /\ w.task[c].cur = "kthread" =>
                        r.ts[c].saved_jiffies_whence = "SYS"
                 /\ user_mode(w, c) \/ w.task[c].cur = "kthread"
                 /\ r.ts[c].saved_jiffies = r.jiffies

\* A task interrupted in user mode gets its tick stopped by the call, with
\* jiffies brought up to date on the way, while the same call would be
\* refused had the interrupt hit the task in the kernel.
C20_Witness ==
    \E c \in CPUs : \E in \in AllIns :
        LET r == tick_nohz_cpuset_stop_tick(World, c, in)
            k == [World EXCEPT !.task[c].umode = FALSE]
        IN /\ ~ts[c].inidle /\ user_mode(World, c)
           /\ newly_stopped(World, r, c)
           /\ r.ts[c].saved_jiffies_whence = "USER"
           /\ ts[c].saved_jiffies # r.jiffies
           /\ ~newly_stopped(k, tick_nohz_cpuset_stop_tick(k, c, in), c)

\* What a boundary hook must leave behind when the tick is stopped: r is
\* the outcome in w on CPU c, bucket the sink it flushes to, whence the
\* context that begins.
flushes_and_flips(w, r, c, bucket, whence) ==
    LET d == (w.jiffies - w.ts[c].saved_jiffies) % ULongMod IN
    /\ r.ts = [w.ts EXCEPT ![c].saved_jiffies = w.jiffies,
                           ![c].saved_jiffies_whence = whence]
    /\ r.acct = IF w.acct[c].open
                THEN [w.acct EXCEPT ![c][bucket] = (@ + d) % ULongMod]
                ELSE w.acct
    /\ [r EXCEPT !.ts = w.ts, !.acct = w.acct] = w

\* C21: with the tick stopped, tick_nohz_enter_kernel accounts jiffies -
\* saved_jiffies ticks as user time, sets saved_jiffies = jiffies and
\* saved_jiffies_whence = JIFFIES_SAVED_SYS; tick_nohz_exit_kernel accounts
\* the same difference as system time, sets saved_jiffies = jiffies and
\* saved_jiffies_whence = JIFFIES_SAVED_USER; with the tick running neither
\* changes anything.
C21_BoundaryHooksFlushAndFlip ==
    \A c \in CPUs :
        LET w == World
            e == tick_nohz_enter_kernel(w, c)
            x == tick_nohz_exit_kernel(w, c)
        IN task[c].cur = "user" =>
            IF ~w.ts[c].tick_stopped THEN e = w /\ x = w
            ELSE /\ task[c].umode => flushes_and_flips(w, e, c, "user", "SYS")
                 /\ ~task[c].umode => flushes_and_flips(w, x, c, "sys", "USER")

\* A task that ran in user mode with its tick stopped while jiffies moved on
\* enters the kernel, and the sink is open to take the ticks.
C21_Witness ==
    \E c \in CPUs :
        /\ task[c].cur = "user" /\ task[c].umode /\ ts[c].tick_stopped
        /\ acct[c].open /\ jiffies # ts[c].saved_jiffies
        /\ tick_nohz_enter_kernel(World, c).acct[c].user # acct[c].user

\* C22: the WARN_ON_ONCE of the boundary hooks never fires: whenever
\* tick_nohz_exit_kernel can run with the tick stopped (a user task in the
\* kernel) saved_jiffies_whence is JIFFIES_SAVED_SYS, and whenever
\* tick_nohz_enter_kernel can run with the tick stopped (a user task in
\* user mode) it is JIFFIES_SAVED_USER.
C22_BoundaryWarnsQuiet ==
    \A c \in CPUs :
        task[c].cur = "user" /\ ts[c].tick_stopped =>
            ts[c].saved_jiffies_whence = IF task[c].umode THEN "USER" ELSE "SYS"

\* A task whose tick was stopped in user mode has entered the kernel and
\* stands before its return to user mode.
C22_Witness ==
    \E c \in CPUs :
        /\ task[c].cur = "user" /\ ~task[c].umode /\ ts[c].tick_stopped
        /\ ts[c].saved_jiffies_whence = "SYS"
        /\ tick_nohz_exit_kernel(World, c).ts[c].saved_jiffies_whence = "USER"

\* C23: cpuset_exit_nohz_interrupt on a CPU that runs a task with its tick
\* stopped flushes the saved ticks, unmarks the CPU (nr_cpus_user_nohz goes
\* down by one if it was marked) and restarts the tick; delivered again
\* right after, or to a CPU whose tick runs or that runs its idle task, it
\* changes nothing and accounts nothing.
C23_ExitIpiIdempotent ==
    \A c \in CPUs : \A l \in Lags : \A l2 \in Lags :
        LET w == World
            r == cpuset_exit_nohz_interrupt(w, c, l)
        IN IF w.ts[c].tick_stopped /\ ~is_idle_task(w, c)
           THEN /\ ~r.ts[c].tick_stopped /\ tick_armed(r, c)
                /\ ~r.ts[c].user_nohz
                /\ r.nr_cpus_user_nohz =
                       w.nr_cpus_user_nohz - (IF w.ts[c].user_nohz THEN 1 ELSE 0)
                /\ r.ts[c].saved_jiffies_whence = "NONE"
                /\ track.acct =>
                     attributed(w, r, c, w.ts[c].saved_jiffies_whence,
                                IF elapsed_ticks(w, c) < LONG_MAX
                                THEN elapsed_ticks(w, c) ELSE 0)
                /\ cpuset_exit_nohz_interrupt(r, c, l2) = r
           ELSE r = w

\* The IPI reaches a marked CPU that has ticks to flush, while another CPU
\* sits in its idle task with its tick stopped or runs with its tick on.
C23_Witness ==
    /\ \E c \in CPUs :
         /\ BusyAdaptiveStopped(c) /\ acct[c].open
         /\ elapsed_ticks(World, c) \in 1 .. (LONG_MAX - 1)
         /\ cpuset_exit_nohz_interrupt(World, c, 0).acct # acct
    /\ \E c \in CPUs : ~ts[c].tick_stopped

\* What a restart leaves behind: w at the call on CPU c, r at its return.
restarted_in_phase(w, r, c) ==
    /\ ~r.ts[c].tick_stopped
    /\ w.now - r.last_jiffies_update < TickPeriod
    /\ tick_armed(r, c)
    /\ r.ts[c].expires >= w.ts[c].last_tick
    /\ (r.ts[c].expires - w.ts[c].last_tick) % TickPeriod = 0

\* C24: tick_nohz_restart_sched_tick brings jiffies up to date before it
\* re-arms, and returns with tick_stopped clear and the tick timer armed
\* for a deadline that is ahead of the time of the last arm attempt and
\* lies a whole number of tick periods after last_tick, the expiry saved
\* when the tick was first stopped; a tick_nohz_stop_sched_tick call on a
\* CPU whose tick is stopped leaves last_tick alone.
C24_RestartKeepsPhase ==
    \A c \in CPUs :
        /\ \A l \in Lags :
             ts[c].tick_stopped =>
                 restarted_in_phase(World,
                                    tick_nohz_restart_sched_tick(World, c, l), c)
        /\ \A in \in AllIns : \A l \in Lags : \A w \in StopCallWorlds(c, in) :
             w.ts[c].tick_stopped =>
                 tick_nohz_stop_sched_tick(w, c, [in EXCEPT !.lag = l])
                     .w.ts[c].last_tick = w.ts[c].last_tick

\* A tick stopped for more than a period is restarted while time passes
\* inside the call, so that the first arm attempt comes too late and the
\* deadline is forwarded again.
C24_Witness ==
    \E c \in CPUs : \E l \in Lags :
        LET r == tick_nohz_restart_sched_tick(World, c, l) IN
        /\ ts[c].tick_stopped
        /\ r.jiffies # jiffies
        /\ r.ts[c].expires > ts[c].last_tick + TickPeriod
        /\ r.ts[c].expires > hrtimer_forward(ts[c].last_tick, now, TickPeriod)

\* One tick_check_oneshot_change call: r its outcome in w on CPU c with the
\* answers in.
oneshot_check_contract(w, r, c, in) ==
    /\ ~r.w.ts[c].check_clocks
    /\ w.ts[c].nohz_mode # "INACTIVE" => r.w.ts[c].nohz_mode = w.ts[c].nohz_mode
    /\ r.w.ts[c].nohz_mode # w.ts[c].nohz_mode =>
           /\ r.w.ts[c].nohz_mode = "LOWRES"
           /\ w.ts[c].check_clocks /\ in.allow_nohz /\ in.oneshot_ok
    /\ r.ret = 1 <=> /\ w.ts[c].check_clocks /\ w.ts[c].nohz_mode = "INACTIVE"
                     /\ in.oneshot_ok /\ ~in.allow_nohz

\* C25: a CPU's nohz_mode changes only from NOHZ_MODE_INACTIVE to
\* NOHZ_MODE_LOWRES (tick_check_oneshot_change with check_clocks set, nohz
\* allowed and oneshot usable), to NOHZ_MODE_HIGHRES (the high resolution
\* tick setup) and to NOHZ_MODE_INACTIVE (teardown);
\* tick_check_oneshot_change always leaves check_clocks clear, never
\* changes a mode that is LOWRES or HIGHRES, and returns 1 exactly when
\* check_clocks was set, the mode is INACTIVE, oneshot is usable and nohz is
\* not allowed.
C25_ModeLifecycle ==
    /\ [](\A c \in CPUs : \A in \in ModeIns :
            oneshot_check_contract(World, tick_check_oneshot_change(World, c, in),
                                   c, in))
    /\ [][\A c \in CPUs :
            ts'[c].nohz_mode # ts[c].nohz_mode =>
                \/ /\ ts[c].nohz_mode = "INACTIVE" /\ ts'[c].nohz_mode = "LOWRES"
                   /\ ts[c].check_clocks /\ ~ts'[c].check_clocks
                \/ /\ ts[c].nohz_mode = "INACTIVE" /\ ts'[c].nohz_mode = "HIGHRES"
                   /\ dev'[c].hres
                \/ /\ ts'[c].nohz_mode = "INACTIVE" /\ ~task[c].online]_vars

\* A CPU that had stopped its tick in a oneshot mode has been torn down, a
\* clock change is pending for it, and the check would consume the flag and
\* ask for the high resolution setup.
C25_Witness ==
    \E c \in CPUs :
        /\ task[c].cur = "none" /\ ts[c].nohz_mode = "INACTIVE"
        /\ ts[c].tick_stopped /\ ts[c].check_clocks
        /\ \E in \in ModeIns :
             /\ tick_check_oneshot_change(World, c, in).ret = 1
             /\ ~tick_check_oneshot_change(World, c, in).w.ts[c].check_clocks


\* C26: a tick handler that finds tick_do_timer_cpu at TICK_DO_TIMER_NONE
\* stores its own CPU there, and when handlers race with each other or
\* with check_drop_timer_duty, the duty a CPU holds is never overwritten
\* by another CPU's handler: at a handler's store the duty is still free
\* (or its own already).
C26_HeldDutyNotOverwritten ==
    [][\A c \in CPUs :
         cdd[c].pc = "store" /\ cdd'[c].pc = "idle"
             => tick_do_timer_cpu \in {TICK_DO_TIMER_NONE, c}]_vars


\* C27: in every reachable state the CPU recorded in tick_do_timer_cpu does
\* not have its tick stopped with no wake-up armed, or with a wake-up later
\* than last_jiffies_update + timekeeping_max_deferment; also when an idle
\* CPU whose tick was stopped with its timer cancelled takes the duty from
\* a busy CPU in adaptive mode.
C27_DutyHolderWakesInTime ==
    \A c \in CPUs :
        (tick_do_timer_cpu = c /\ task[c].online /\ ts[c].tick_stopped)
            => wakeup(World, c) <= last_jiffies_update + timekeeping_max_deferment


\* C28: between operations every CPU that runs a task other than idle with
\* its tick stopped has user_nohz set and is counted in nr_cpus_user_nohz,
\* so nr_cpus_user_nohz = 0 means that no such CPU has a stopped tick; the
\* eligibility test made at interrupt exit never unmarks a CPU and leaves
\* its tick stopped.
C28_StoppedBusyIsCounted ==
    \A c \in CPUs :
        (task[c].online /\ task[c].cur # "idle" /\ ts[c].tick_stopped)
            => ts[c].user_nohz /\ nr_cpus_user_nohz > 0


\* C29: the idle time and the iowait time reported for a CPU never go back
\* from one read of get_cpu_idle_time_us / get_cpu_iowait_time_us to the
\* next, in whatever state of idle entries, exits and interrupts the reads
\* are made, with or without last_update_time, and whatever nr_iowait_cpu
\* answers at each of them.
C29_ReadsMonotonic ==
    \A c \in CPUs, u1 \in BOOLEAN, u2 \in BOOLEAN :
      \A in1 \in IowaitIns, in2 \in IowaitIns :
        /\ LET a == get_cpu_idle_time_us(World, c, u1, in1)
               b == get_cpu_idle_time_us(a.w, c, u2, in2)
           IN b.ret >= a.ret
        /\ LET a == get_cpu_iowait_time_us(World, c, u1, in1)
               b == get_cpu_iowait_time_us(a.w, c, u2, in2)
           IN b.ret >= a.ret


\* C30: a CPU whose tick is stopped is in mode NOHZ_MODE_LOWRES or
\* NOHZ_MODE_HIGHRES, also after tick_cancel_sched_timer has torn down a
\* CPU whose tick was stopped.
C30_StoppedTickHasNohzMode ==
    \A c \in CPUs : ts[c].tick_stopped => ts[c].nohz_mode \in {"LOWRES", "HIGHRES"}

=============================================================================
